---- MODULE Spec2Model ----
(***************************************************************************)
(* Sockress: the server's registry, dispatch engine and socket adapter     *)
(* (server/src/index.ts, here src/unnamed/part_002) and the client's       *)
(* transport controller (src/client/src/index.ts).                         *)
(*                                                                         *)
(* Strings that the code takes apart (paths, route patterns) are sequences *)
(* of tokens: "/" is a token, and so is every maximal run of characters    *)
(* other than "/".  "/api/users/7" is <<"/","api","/","users","/","7">>.   *)
(***************************************************************************)
EXTENDS Integers, Sequences, FiniteSets, TLC

(***************************************************************************)
(* Bounds of the model.                                                    *)
(***************************************************************************)
NumReq == 2
MaxOps == 2


(***************************************************************************)
(* Path matcher: buildMatcher, matchesPrefix.                              *)
(***************************************************************************)
\* segment.startsWith(':') on the vocabulary of pattern segments
IsParamSeg(s) == s \in {":id", ":id?", ":name"}

\* segment.endsWith('?')
IsOptionalSeg(s) == s \in {":id?"}

\* segment.replace(/^:/, '').replace(/\?$/, '')
SegKey(s) == CASE s \in {":id", ":id?"} -> "id"
               [] s = ":name" -> "name"
               [] OTHER -> s

\* path.split('/') without the empty segments (they contribute '' to the regex)
RECURSIVE Segments(_)
Segments(raw) ==
  IF raw = <<>> THEN <<>>
  ELSE IF Head(raw) = "/" THEN Segments(Tail(raw))
       ELSE <<Head(raw)>> \o Segments(Tail(raw))

\* the keys array filled while the regex is built
RECURSIVE MatcherKeys(_)
MatcherKeys(segs) ==
  IF segs = <<>> THEN <<>>
  ELSE LET s == Head(segs) IN
       (IF IsParamSeg(s) THEN <<SegKey(s)>>
        ELSE IF s = "*" THEN <<"wild">>
        ELSE <<>>) \o MatcherKeys(Tail(segs))

NoExec == [ok |-> FALSE, caps |-> <<>>]
Undef == [def |-> FALSE, val |-> <<>>]
Cap(v) == [def |-> TRUE, val |-> v]

\* a mutation of AtEnd: the regex ends at a segment boundary, (?=\/|$)
AtEndPrefix(ts) == ts = <<>> \/ Head(ts) = "/"

\* a mutation of AtEnd: the regex ends in $ alone
AtEndNoSlash(ts) == ts = <<>>

\* \/?$ at the end of the regex
AtEnd(ts) == ts = <<>> \/ ts = <<"/">>

\* regex.exec of the pattern's remaining pieces on the remaining input,
\* followed by \/?$ ; the first match in the regex engine's backtracking order
RECURSIVE RegexExec(_, _), WildExec(_, _, _)
RegexExec(segs, ts) ==
  IF segs = <<>>
  THEN IF AtEnd(ts) THEN [ok |-> TRUE, caps |-> <<>>] ELSE NoExec
  ELSE LET s == Head(segs)
           rest == Tail(segs)
           taken == IF Len(ts) >= 2 /\ ts[1] = "/" /\ ts[2] # "/"
                    THEN RegexExec(rest, SubSeq(ts, 3, Len(ts)))
                    ELSE NoExec
       IN  IF IsParamSeg(s)
           THEN IF taken.ok
                THEN [ok |-> TRUE, caps |-> <<Cap(<<ts[2]>>)>> \o taken.caps]
                ELSE IF IsOptionalSeg(s)
                     THEN LET skipped == RegexExec(rest, ts)
                          IN  IF skipped.ok
                              THEN [ok |-> TRUE, caps |-> <<Undef>> \o skipped.caps]
                              ELSE NoExec
                     ELSE NoExec
           ELSE IF s = "*"
           THEN IF Len(ts) >= 1 /\ ts[1] = "/" THEN WildExec(rest, ts, Len(ts)) ELSE NoExec
           ELSE IF Len(ts) >= 2 /\ ts[1] = "/" /\ ts[2] = s
                THEN RegexExec(rest, SubSeq(ts, 3, Len(ts)))
                ELSE NoExec

\* \/(.*) is greedy: the longest capture ts[2..k] first
WildExec(rest, ts, k) ==
  IF k < 1 THEN NoExec
  ELSE LET m == RegexExec(rest, SubSeq(ts, k + 1, Len(ts)))
       IN  IF m.ok
           THEN [ok |-> TRUE, caps |-> <<Cap(SubSeq(ts, 2, k))>> \o m.caps]
           ELSE WildExec(rest, ts, k - 1)

\* tokens on which decodeURIComponent throws URIError
Malformed(t) == t \in {"%"}

\* decodeURIComponent of one token
DecodeToken(t) == CASE t = "%37" -> "7"
                    [] t = "%41" -> "A"
                    [] OTHER -> t

DecodeThrows(v) == \E i \in 1..Len(v) : Malformed(v[i])
DecodeURIComponent(v) == [i \in 1..Len(v) |-> DecodeToken(v[i])]

\* params[key] = value on a Record kept in insertion order
SetParam(params, key, value) ==
  IF \E i \in 1..Len(params) : params[i].key = key
  THEN [i \in 1..Len(params) |->
          IF params[i].key = key THEN [key |-> key, value |-> value] ELSE params[i]]
  ELSE Append(params, [key |-> key, value |-> value])

RECURSIVE CollectParams(_, _, _)
CollectParams(keys, caps, params) ==
  IF keys = <<>> THEN params
  ELSE CollectParams(Tail(keys), Tail(caps),
                     IF Head(caps).def
                     THEN SetParam(params, Head(keys), DecodeURIComponent(Head(caps).val))
                     ELSE params)

NoMatch == [kind |-> "null", params |-> <<>>]
MatchThrows == [kind |-> "throw", params |-> <<>>]
Matched(params) == [kind |-> "match", params |-> params]

\* buildMatcher(raw).match(incoming)
MatcherMatch(raw, incoming) ==
  IF raw = <<"*">> \/ raw = <<"/", "*">>
  THEN Matched(<<[key |-> "wild",
                  value |-> IF incoming # <<>> /\ Head(incoming) = "/"
                            THEN Tail(incoming) ELSE incoming]>>)
  ELSE LET segs == Segments(raw)
           ts == IF incoming = <<>> THEN <<"/">> ELSE incoming
           exec == IF segs = <<>>
                   THEN [ok |-> ts \in {<<"/">>, <<"/", "/">>}, caps |-> <<>>]
                   ELSE RegexExec(segs, ts)
       IN  IF ~exec.ok THEN NoMatch
           ELSE IF \E i \in 1..Len(exec.caps) :
                     exec.caps[i].def /\ DecodeThrows(exec.caps[i].val)
                THEN MatchThrows
                ELSE Matched(CollectParams(MatcherKeys(segs), exec.caps, <<>>))

IsPrefixOf(p, s) == Len(p) <= Len(s) /\ SubSeq(s, 1, Len(p)) = p

\* t.startsWith(p) on the vocabulary of path tokens
TokenStartsWith(t, p) == t = p \/ (p = "api" /\ t = "apiary")

\* a mutation of MatchesPrefix: path.startsWith(base)
MatchesPrefixLoose(base, path) ==
  IF base = <<"/">> \/ base = <<>> THEN TRUE
  ELSE LET b == IF Head(base) # "/" THEN <<"/">> \o base ELSE base
       IN  /\ Len(path) >= Len(b)
           /\ SubSeq(path, 1, Len(b) - 1) = SubSeq(b, 1, Len(b) - 1)
           /\ TokenStartsWith(path[Len(b)], b[Len(b)])

\* a mutation of MatchesPrefix that takes the base for the whole path
MatchesPrefixExact(base, path) == path = base

\* matchesPrefix(base, path)
MatchesPrefix(base, path) ==
  IF base = <<"/">> \/ base = <<>> THEN TRUE
  ELSE LET b == IF Head(base) # "/" THEN <<"/">> \o base ELSE base
       IN  path = b \/ IsPrefixOf(b \o <<"/">>, path)

(***************************************************************************)
(* Middleware/route registry: SockressRouter, SockressApp.use, register,   *)
(* param, composeStack.  A handler is [name, arity]: the engine reads only *)
(* its arity (handler.length).                                             *)
(***************************************************************************)
Handler(name, arity) == [name |-> name, arity |-> arity]
ArityOfErrorHandler == 4
IsErrorHandlerFn(h) == h.arity = ArityOfErrorHandler

EmptyApp == [middlewares |-> <<>>, routes |-> <<>>, paramHandlers |-> <<>>]
EmptyRouter == [middlewares |-> <<>>, routes |-> <<>>]

IsRouter(item) == "routes" \in DOMAIN item

MiddlewareLayer(path, h) ==
  [path |-> path, handler |-> h, isErrorHandler |-> IsErrorHandlerFn(h)]

\* SockressRouter.use(path, ...handlers)
RECURSIVE RouterUse(_, _, _)
RouterUse(router, path, handlers) ==
  IF handlers = <<>> THEN router
  ELSE RouterUse([router EXCEPT !.middlewares = Append(@, MiddlewareLayer(path, Head(handlers)))],
                 path, Tail(handlers))

\* SockressRouter.register / SockressApp.register (handlers is not empty)
Register(reg, method, path, handlers) ==
  [reg EXCEPT !.routes = Append(@, [method |-> method, raw |-> path, handlers |-> handlers])]

\* `${a}${b}` on token sequences: the last segment of a and the first of b
\* are one segment when no slash stands between them
Concat(a, b) ==
  IF a = <<>> \/ b = <<>> \/ a[Len(a)] = "/" \/ Head(b) = "/"
  THEN a \o b
  ELSE SubSeq(a, 1, Len(a) - 1) \o <<a[Len(a)] \o Head(b)>> \o Tail(b)

\* the layers use(path, router) pushes for a mounted router
MountedMiddlewares(path, layers) ==
  [i \in 1..Len(layers) |->
     [layers[i] EXCEPT !.path =
        IF path = <<"/">> THEN layers[i].path
        ELSE Concat(path, IF layers[i].path = <<"/">> THEN <<>> ELSE layers[i].path)]]

MountedRoutes(path, routes) ==
  [i \in 1..Len(routes) |->
     [routes[i] EXCEPT !.raw =
        IF path = <<"/">> THEN routes[i].raw ELSE Concat(path, routes[i].raw)]]

\* SockressApp.use(path, ...items); an item is a handler or a router
RECURSIVE AppUse(_, _, _)
AppUse(app, path, items) ==
  IF items = <<>> THEN app
  ELSE LET item == Head(items)
           next == IF IsRouter(item)
                   THEN [app EXCEPT
                           !.middlewares = @ \o MountedMiddlewares(path, item.middlewares),
                           !.routes = @ \o MountedRoutes(path, item.routes)]
                   ELSE [app EXCEPT !.middlewares = Append(@, MiddlewareLayer(path, item))]
       IN  AppUse(next, path, Tail(items))

\* SockressApp.param(name, handler): paramHandlers.set(name, handler)
AppParam(app, name, h) ==
  [app EXCEPT !.paramHandlers =
     IF \E i \in 1..Len(@) : @[i].name = name
     THEN [i \in 1..Len(@) |-> IF @[i].name = name THEN [name |-> name, handler |-> h] ELSE @[i]]
     ELSE Append(@, [name |-> name, handler |-> h])]

HasParamHandler(app, name) ==
  \E i \in 1..Len(app.paramHandlers) : app.paramHandlers[i].name = name

ParamHandlerOf(app, name) ==
  LET i == CHOOSE j \in 1..Len(app.paramHandlers) : app.paramHandlers[j].name = name
  IN  app.paramHandlers[i].handler

\* a PipelineLayer; setsParams: the wrapper assigns request.params = params
\* before it calls the handler (parameter hooks and route handlers)
PipelineLayer(h, isErr, kind, setsParams, params) ==
  [handler |-> h, isErrorHandler |-> isErr, kind |-> kind,
   setsParams |-> setsParams, params |-> params]

RECURSIVE MatchingMiddlewares(_, _)
MatchingMiddlewares(layers, path) ==
  IF layers = <<>> THEN <<>>
  ELSE (IF MatchesPrefix(Head(layers).path, path)
        THEN <<PipelineLayer(Head(layers).handler, Head(layers).isErrorHandler, "mw", FALSE, <<>>)>>
        ELSE <<>>) \o MatchingMiddlewares(Tail(layers), path)

\* the parameter hooks of one matched route, in the order of Object.entries
RECURSIVE ParamLayers(_, _, _)
ParamLayers(app, entries, params) ==
  IF entries = <<>> THEN <<>>
  ELSE (IF HasParamHandler(app, Head(entries).key)
        THEN <<PipelineLayer(ParamHandlerOf(app, Head(entries).key), FALSE, "param", TRUE, params)>>
        ELSE <<>>) \o ParamLayers(app, Tail(entries), params)

RouteLayers(handlers, params) ==
  [i \in 1..Len(handlers) |->
     PipelineLayer(handlers[i], IsErrorHandlerFn(handlers[i]), "route", TRUE, params)]

\* the loop over this.routes of composeStack; acc is [kind, stack, params]
RECURSIVE ComposeRoutes(_, _, _, _, _)
ComposeRoutes(app, routes, path, method, acc) ==
  IF routes = <<>> THEN acc
  ELSE LET route == Head(routes) IN
       IF route.method # method /\ route.method # "ALL"
       THEN ComposeRoutes(app, Tail(routes), path, method, acc)
       ELSE LET match == MatcherMatch(route.raw, path) IN
            IF match.kind = "throw" THEN [acc EXCEPT !.kind = "throw"]
            ELSE IF match.kind = "null"
            THEN ComposeRoutes(app, Tail(routes), path, method, acc)
            ELSE ComposeRoutes(app, Tail(routes), path, method,
                   [kind |-> "ok",
                    stack |-> acc.stack \o ParamLayers(app, match.params, match.params)
                                        \o RouteLayers(route.handlers, match.params),
                    params |-> match.params])

\* a mutation of ComposeStack that pushes the route layers first
ComposeStackRoutesFirst(app, path, method) ==
  LET c == ComposeRoutes(app, app.routes, path, method,
                         [kind |-> "ok", stack |-> <<>>, params |-> <<>>])
  IN  [c EXCEPT !.stack = @ \o MatchingMiddlewares(app.middlewares, path)]

\* composeStack(req, method): the stack, and req.params as it leaves them
ComposeStack(app, path, method) ==
  ComposeRoutes(app, app.routes, path, method,
                [kind |-> "ok", stack |-> MatchingMiddlewares(app.middlewares, path),
                 params |-> <<>>])

(***************************************************************************)
(* Response model: SockressResponse.  headers holds the content-type only  *)
(* (the CORS headers buildHeaders adds are the same for every response of  *)
(* a connection).  A payload is [type, val] with type the typeof.          *)
(***************************************************************************)
NoErr == "undefined"
Falsy == "falsy"
Errors == {"E1", "E2"}
\* if (err): an Error object is truthy; undefined, null, 0 and '' are not
Truthy(err) == err \notin {NoErr, Falsy}

StatusOk == 200
StatusCreated == 201
StatusNoContent == 204
StatusNotFound == 404
StatusServerError == 500

NoContentType == ""
JsonType == "application/json; charset=utf-8"
TextType == "text/plain; charset=utf-8"
HtmlType == "text/html"

StringPayload == [type |-> "string", val |-> "hello"]
ObjectPayload == [type |-> "object", val |-> "data"]
UndefinedPayload == [type |-> "undefined", val |-> "undefined"]
NotFoundBody == [type |-> "object", val |-> <<"error", "Not Found">>]
\* details: err instanceof Error ? err.message : err
ServerErrorBody(err) ==
  [type |-> "object", val |-> <<"error", "Internal Server Error", "details", err>>]

\* mode: { kind: 'socket', socket, requestId } | { kind: 'http', req, res }
SocketMode(requestId) == [kind |-> "socket", requestId |-> requestId]

NewResponse(mode) ==
  [statusCode |-> StatusOk, sent |-> FALSE, contentType |-> NoContentType,
   cookies |-> <<>>, mode |-> mode]

\* status(code)
ResStatus(R, code) == [R EXCEPT !.statusCode = code]

\* set('content-type', value)
ResSet(R, value) == [R EXCEPT !.contentType = value]

\* cookie(name, value): this.cookies.push(serializeCookie(...))
ResCookie(R, c) == [R EXCEPT !.cookies = Append(@, c)]

\* a bug: every envelope tagged with the id of the connection's first request
EnvelopeIdOfFirst(R) == <<"client", 1>>

\* the id an outgoing response envelope is tagged with: this.mode.requestId
EnvelopeId(R) == R.mode.requestId

\* mode: { kind: 'http', req, res }; incoming is what the model keeps of req
HttpMode(incoming) == [kind |-> "http", requestId |-> <<"none", 0>>, req |-> incoming]

\* a mutation of HttpWrite that leaves res.statusCode at its default
HttpWriteDefaultStatus(R, payload) ==
  [type |-> "http", id |-> <<"none", 0>>, status |-> StatusOk,
   contentType |-> IF payload.type = "object" /\ R.contentType = NoContentType
                   THEN JsonType ELSE R.contentType,
   body |-> payload, cookies |-> R.cookies, message |-> ""]

\* the http branch of send(): what is written to the ServerResponse
HttpWrite(R, payload) ==
  [type |-> "http", id |-> <<"none", 0>>, status |-> R.statusCode,
   contentType |-> IF payload.type = "object" /\ R.contentType = NoContentType
                   THEN JsonType ELSE R.contentType,
   body |-> payload, cookies |-> R.cookies, message |-> ""]

\* send(payload) past its guard: sets sent and writes the message
Emit(R, payload) ==
  LET R1 == [R EXCEPT !.sent = TRUE]
      R2 == IF R1.contentType = NoContentType /\ payload.type = "string"
            THEN ResSet(R1, TextType) ELSE R1
  IN  IF R2.mode.kind = "http"
      THEN [res |-> R2, out |-> <<HttpWrite(R2, payload)>>]
      ELSE [res |-> R2,
            out |-> <<[type |-> "response", id |-> EnvelopeId(R2),
                       status |-> R2.statusCode, contentType |-> R2.contentType,
                       body |-> payload, cookies |-> R2.cookies,
                       message |-> ""]>>]

\* a bug: send() without its if (this.sent) return
ResSendUnlatched(R, payload) == Emit(R, payload)

\* send(payload): [res, out]; out holds the message written to the transport
ResSend(R, payload) ==
  IF R.sent THEN [res |-> R, out |-> <<>>] ELSE Emit(R, payload)

\* json(payload)
ResJson(R, payload) == ResSend(ResSet(R, JsonType), payload)

\* end()
ResEnd(R) == ResSend(R, UndefinedPayload)

\* a bug: the 500 without the error's message
RenderErrorNoDetails(R, err) ==
  IF R.sent THEN [res |-> R, out |-> <<>>]
  ELSE ResJson(ResStatus(R, StatusServerError), ServerErrorBody("hidden"))

\* renderError(err, req, res)
RenderError(R, err) ==
  IF R.sent THEN [res |-> R, out |-> <<>>]
  ELSE ResJson(ResStatus(R, StatusServerError), ServerErrorBody(err))

\* a bug: no 404 at the end of the stack
EndOfStackSilent(R, err) ==
  IF Truthy(err) THEN RenderError(R, err) ELSE [res |-> R, out |-> <<>>]

\* the branch of next() taken when no layer is left at idx
EndOfStack(R, err) ==
  IF Truthy(err) THEN RenderError(R, err)
  ELSE IF ~R.sent THEN ResJson(ResStatus(R, StatusNotFound), NotFoundBody)
  ELSE [res |-> R, out |-> <<>>]

\* a mutation of Advance: next() reads stack[idx] and leaves idx as it was
AdvanceRepeats(stk, i, err) ==
  IF i < Len(stk) THEN [idx |-> i, pos |-> i + 1, err |-> err]
  ELSE [idx |-> i, pos |-> 0, err |-> err]

\* a mutation of Advance that invokes the first layer it finds, whatever
\* its kind
AdvanceNoSkip(stk, i, err) ==
  IF i + 1 > Len(stk) THEN [idx |-> i + 1, pos |-> 0, err |-> err]
  ELSE [idx |-> i + 1, pos |-> i + 1, err |-> err]

RECURSIVE AdvanceOnSuccess(_, _, _)
\* a mutation of Advance that does not skip the error handlers of the
\* success path
AdvanceOnSuccess(stk, i, err) ==
  IF i + 1 > Len(stk) THEN [idx |-> i + 1, pos |-> 0, err |-> err]
  ELSE IF Truthy(err) /\ ~stk[i + 1].isErrorHandler
       THEN AdvanceOnSuccess(stk, i + 1, err)
       ELSE [idx |-> i + 1, pos |-> i + 1, err |-> IF Truthy(err) THEN err ELSE NoErr]

RECURSIVE AdvanceEndsAtErrorHandler(_, _, _)
\* a mutation of Advance that ends the dispatch at an error handler met on
\* the success path
AdvanceEndsAtErrorHandler(stk, i, err) ==
  IF i + 1 > Len(stk) THEN [idx |-> i + 1, pos |-> 0, err |-> err]
  ELSE IF Truthy(err)
       THEN IF stk[i + 1].isErrorHandler THEN [idx |-> i + 1, pos |-> i + 1, err |-> err]
            ELSE AdvanceEndsAtErrorHandler(stk, i + 1, err)
       ELSE IF stk[i + 1].isErrorHandler THEN [idx |-> Len(stk) + 1, pos |-> 0, err |-> NoErr]
            ELSE [idx |-> i + 1, pos |-> i + 1, err |-> NoErr]

\* next(err) up to the point where a handler is invoked or the stack ends:
\* the layers skipped on the way are entered by the recursive await next(...)
\* calls, which run synchronously.  i is idx before the call; pos = 0: the
\* stack ended.
RECURSIVE Advance(_, _, _)
Advance(stk, i, err) ==
  IF i + 1 > Len(stk) THEN [idx |-> i + 1, pos |-> 0, err |-> err]
  ELSE LET layer == stk[i + 1] IN
       IF Truthy(err)
       THEN IF layer.isErrorHandler THEN [idx |-> i + 1, pos |-> i + 1, err |-> err]
            ELSE Advance(stk, i + 1, err)
       ELSE IF layer.isErrorHandler THEN Advance(stk, i + 1, NoErr)
            ELSE [idx |-> i + 1, pos |-> i + 1, err |-> NoErr]

(***************************************************************************)
(* Inputs of the server model.                                             *)
(***************************************************************************)
PathUser7 == <<"/", "api", "/", "users", "/", "7">>
PathUserBad == <<"/", "api", "/", "users", "/", "%">>
PathOther == <<"/", "other">>
Paths == {PathUser7, PathUserBad, PathOther}
Methods == {"GET"}
HandlerStatusCodes == {StatusCreated}
HandlerCookies == {"sid=1"}
MaxCookies == 1

PatternUser == <<"/", "api", "/", "users", "/", ":id">>
Mw == Handler("mw", 3)
ErrMw == Handler("onError", 4)
Hook == Handler("loadUser", 3)
RouteH == Handler("show", 3)
RouteH2 == Handler("audit", 3)

\* app.use(mw); app.get('/api/users/:id', show, audit)
AppPlain ==
  Register(AppUse(EmptyApp, <<"/">>, <<Mw>>), "GET", PatternUser, <<RouteH, RouteH2>>)

\* app.use('/api', mw); app.param('id', loadUser); app.get('/api/users/:id', show);
\* app.use(onError)
AppErrorMw ==
  AppUse(Register(AppParam(AppUse(EmptyApp, <<"/", "api">>, <<Mw>>), "id", Hook),
                  "GET", PatternUser, <<RouteH>>),
         <<"/">>, <<ErrMw>>)

\* app.get('/api/users/:id', show, onError, audit)
AppRouteError ==
  Register(EmptyApp, "GET", PatternUser, <<RouteH, ErrMw, RouteH2>>)

\* app.get('/api/users/:id', show)
AppTiny == Register(EmptyApp, "GET", PatternUser, <<RouteH>>)

\* app.use('/api', mw); app.get('/api/users/:id', show)
AppApi == Register(AppUse(EmptyApp, <<"/", "api">>, <<Mw>>), "GET", PatternUser, <<RouteH>>)

Apps == {AppPlain, AppErrorMw, AppRouteError}

(***************************************************************************)
(* State.                                                                  *)
(***************************************************************************)
VARIABLES
  app,        \* server: middlewares, routes, paramHandlers
  slots,      \* server: how many request envelopes the connection will carry
  budget,     \* server: how many calls one handler invocation makes at most
  req,        \* server: per envelope, the SockressRequest built for it
  res,        \* server: per envelope, its SockressResponse
  stack,      \* server: per envelope, runPipeline's composed stack
  idx,        \* server: per envelope, runPipeline's idx
  act,        \* server: per envelope and stack position, the handler invocation
  cur,        \* server: the envelope whose code is running (0: event loop idle)
  callStack,  \* server: the stack positions of the handlers being executed
  wire,       \* server: the messages written to the socket, in order
  log,        \* history: per envelope, the handler invocations in order
  raised,     \* history: per envelope, the errors raised or passed to next()
  sentBy      \* history: per envelope, who emitted its response

serverVars == <<app, slots, budget, req, res, stack, idx, act, cur, callStack,
                wire, log, raised, sentBy>>

VARIABLES
  options,           \* client: the normalized options
  sockets,           \* client: the sockets wsFactory has made, in order
  ws,                \* client: this.ws, an index into sockets (0: undefined)
  reconnectAttempts, \* client: this.reconnectAttempts
  pending,           \* client: this.pending
  timers,            \* client: the ids whose request timeout is armed
  queue,             \* client: this.queue
  socketEnabled,     \* client: this.socketEnabled
  closeRequested,    \* client: this.closeRequested
  reconnectTimers,   \* client: how many reconnect timers are armed
  calls,             \* client: per request() call, where it stands
  backoff,           \* history: the reconnects scheduled since the last open
                     \* event, and the delay of the last one
  inbox              \* history: the envelopes handled, their number and the last

clientVars == <<options, sockets, ws, reconnectAttempts, pending, timers, queue,
                socketEnabled, closeRequested, reconnectTimers, calls, backoff, inbox>>

VARIABLES
  config,             \* adapter: socket.path and cors.origin of the options
  server,             \* adapter: this.server, the state of the http.Server
  wss,                \* adapter: this.wss, the state of the WebSocketServer
  heartbeatInterval,  \* adapter: this.heartbeatInterval, the state of the timer
  shutdownRegistered, \* adapter: this.shutdownRegistered
  shuttingDown,       \* adapter: this.shuttingDown
  listeners,          \* adapter: the process events finalize still listens to
  peers,              \* adapter: the upgrade attempts and what became of them
  closes,             \* adapter: the calls of close(), in order
  ticks               \* history: how many heartbeat intervals have fired

netVars == <<config, server, wss, heartbeatInterval, shutdownRegistered, shuttingDown,
             listeners, peers, closes, ticks>>

VARIABLES
  rooms,         \* chat: this.rooms, room id -> Room
  userRooms,     \* chat: this.userRooms, user id -> the ids of the user's rooms
  connectionMap, \* chat: this.connectionMap, room id -> {socket, userId} records
  chatSockets,   \* chat: per socket, the user behind it and its readyState
  delivered,     \* chat: per socket, the events socket.send() was given
  emitted,       \* chat: the events handed to broadcastToRoom, in order
  chatReply,     \* chat: the status of the response to the last request
  roomsMade      \* chat: how many room ids nanoid() has made

chatVars == <<rooms, userRooms, connectionMap, chatSockets, delivered, emitted, chatReply,
              roomsMade>>

MaxChatSockets == 2
ChatSockets == 1..MaxChatSockets

\* new ChatServer(options): the three maps are empty; no socket is connected
ChatState ==
  /\ rooms = <<>>
  /\ userRooms = <<>>
  /\ connectionMap = <<>>
  /\ chatSockets = [s \in ChatSockets |-> [userId |-> "none", readyState |-> 0]]
  /\ delivered = [s \in ChatSockets |-> <<>>]
  /\ emitted = <<>>
  /\ chatReply = 0
  /\ roomsMade = 0

\* the chat server of a specification that exercises the engine, the client
\* or the adapter only
NoChat == ChatState


\* the adapter of a specification that exercises dispatch or the client
\* only: a SockressApp that has not been told to listen
NoAdapter ==
  /\ config = [socketPath |-> "/sockress", corsOrigin |-> [kind |-> "string", val |-> "*"]]
  /\ server = "none"
  /\ wss = "none"
  /\ heartbeatInterval = "none"
  /\ shutdownRegistered = FALSE
  /\ shuttingDown = FALSE
  /\ listeners = {}
  /\ peers = <<>>
  /\ closes = <<>>
  /\ ticks = 0

Reqs == 1..NumReq

NoRequest == [st |-> "none", id |-> <<"none", 0>>, method |-> "GET", path |-> <<>>,
              params |-> <<>>]

\* the client of a specification that exercises the server only: no
\* SockressClient has been constructed
NoClient ==
  /\ options = [wsFactory |-> "absent", autoConnect |-> FALSE, preferSocket |-> FALSE]
  /\ sockets = <<>>
  /\ ws = 0
  /\ reconnectAttempts = 0
  /\ pending = {}
  /\ timers = {}
  /\ queue = <<>>
  /\ socketEnabled = TRUE
  /\ closeRequested = FALSE
  /\ reconnectTimers = 0
  /\ calls = <<>>
  /\ backoff = [k |-> 0, delay |-> 0]
  /\ inbox = [n |-> 0, last |-> [type |-> "none", id |-> <<"none", 0>>]]

ServerState(n, apps, b) ==
  /\ app \in apps
  /\ slots = n
  /\ budget = b
  /\ req = [r \in Reqs |-> NoRequest]
  /\ res = [r \in Reqs |-> NewResponse(SocketMode(<<"none", 0>>))]
  /\ stack = [r \in Reqs |-> <<>>]
  /\ idx = [r \in Reqs |-> 0]
  /\ act = [r \in Reqs |-> <<>>]
  /\ cur = 0
  /\ callStack = <<>>
  /\ wire = <<>>
  /\ log = [r \in Reqs |-> <<>>]
  /\ raised = [r \in Reqs |-> <<>>]
  /\ sentBy = [r \in Reqs |-> "none"]

ServerInit(n, apps, b) == NoClient /\ NoAdapter /\ NoChat /\ ServerState(n, apps, b)

\* the server of a specification that exercises the client only
ServerQuiet == ServerState(0, {EmptyApp}, 0)

Idle == [st |-> "idle", ops |-> 0, calledNext |-> FALSE]

\* a message as it is recorded on the wire: by is the envelope whose
\* Response wrote it (0: the adapter itself)
Tagged(out, r, who) == [i \in 1..Len(out) |-> [msg |-> out[i], by |-> r, who |-> who]]

\* a mutation of ErrorEnvelope that names the first request of the connection
ErrorEnvelopeWithId(message) ==
  [type |-> "error", id |-> <<"client", 1>>, status |-> 0, contentType |-> NoContentType,
   body |-> UndefinedPayload, cookies |-> <<>>, message |-> message]

\* the outgoing { type: 'error', message } of the message handler
ErrorEnvelope(message) ==
  [type |-> "error", id |-> <<"none", 0>>, status |-> 0, contentType |-> NoContentType,
   body |-> UndefinedPayload, cookies |-> <<>>, message |-> message]

\* a mutation of DoNext that invokes no layer once the response is sent
DoNextHaltsWhenSent(r, stk, i, R, err, cs, a) ==
  LET adv == IF R.sent THEN [idx |-> i + 1, pos |-> 0, err |-> err]
             ELSE Advance(stk, i, err) IN
  /\ idx' = [idx EXCEPT ![r] = adv.idx]
  /\ IF adv.pos = 0
     THEN LET e == EndOfStack(R, adv.err) IN
          /\ res' = [res EXCEPT ![r] = e.res]
          /\ wire' = wire \o Tagged(e.out, r, "engine")
          /\ sentBy' = [sentBy EXCEPT ![r] = IF e.out # <<>> THEN "engine" ELSE @]
          /\ act' = [act EXCEPT ![r] = a]
          /\ callStack' = cs
          /\ cur' = IF cs = <<>> THEN 0 ELSE r
          /\ log' = log
     ELSE /\ res' = [res EXCEPT ![r] = R]
          /\ wire' = wire
          /\ sentBy' = sentBy
          /\ act' = [act EXCEPT ![r] = [a EXCEPT ![adv.pos] = [@ EXCEPT !.st = "run"]]]
          /\ callStack' = Append(cs, adv.pos)
          /\ cur' = r
          /\ log' = [log EXCEPT ![r] = Append(@, [pos |-> adv.pos, err |-> adv.err])]

\* one call of next(err) made for envelope r: stk and i are the stack and idx
\* it reads, R the response, cs the call stack and a the invocations it is
\* made from
DoNext(r, stk, i, R, err, cs, a) ==
  LET adv == Advance(stk, i, err) IN
  /\ idx' = [idx EXCEPT ![r] = adv.idx]
  /\ IF adv.pos = 0
     THEN LET e == EndOfStack(R, adv.err) IN
          /\ res' = [res EXCEPT ![r] = e.res]
          /\ wire' = wire \o Tagged(e.out, r, "engine")
          /\ sentBy' = [sentBy EXCEPT ![r] = IF e.out # <<>> THEN "engine" ELSE @]
          /\ act' = [act EXCEPT ![r] = a]
          /\ callStack' = cs
          /\ cur' = IF cs = <<>> THEN 0 ELSE r
          /\ log' = log
     ELSE /\ res' = [res EXCEPT ![r] = R]
          /\ wire' = wire
          /\ sentBy' = sentBy
          /\ act' = [act EXCEPT ![r] = [a EXCEPT ![adv.pos] = [@ EXCEPT !.st = "run"]]]
          /\ callStack' = Append(cs, adv.pos)
          /\ cur' = r
          /\ log' = [log EXCEPT ![r] = Append(@, [pos |-> adv.pos, err |-> adv.err])]

\* a mutation of ParamsAfter: the wrappers leave req.params as
\* composeStack left them
ParamsAfterKept(stk, i, err, params) == params

\* request.params = { ...match.params } in the wrapper of the layer invoked
ParamsAfter(stk, i, err, params) ==
  LET adv == Advance(stk, i, err) IN
  IF adv.pos # 0 /\ stk[adv.pos].setsParams THEN stk[adv.pos].params ELSE params

(***************************************************************************)
(* Server actions.  JavaScript runs one call stack at a time: a message    *)
(* handler or a resumed handler starts only when the event loop is idle    *)
(* (cur = 0), and a handler's calls run nested on callStack.               *)
(***************************************************************************)
Top == callStack[Len(callStack)]
Pop(cs) == SubSeq(cs, 1, Len(cs) - 1)
Running == cur # 0 /\ callStack # <<>>
CanOp == Running /\ act[cur][Top].ops < budget

\* handleSocket's message handler for the r-th message of the connection
SocketMessageOf(r, methods) ==
  /\ cur = 0
  /\ r <= slots
  /\ req[r].st = "none"
  /\ \A q \in 1..(r - 1) : req[q].st # "none"
  /\ UNCHANGED <<clientVars, netVars, chatVars>>
  /\ \E kind \in {"request", "other", "malformed"}, path \in Paths,
        method \in methods, hasId \in BOOLEAN :
       IF kind # "request"
       THEN \* JSON.parse throws, or payload.type !== 'request'
            /\ req' = [req EXCEPT ![r].st = IF kind = "other" THEN "unsupported" ELSE "malformed"]
            /\ wire' = wire \o Tagged(<<ErrorEnvelope(IF kind = "other"
                                                      THEN "Unsupported message type"
                                                      ELSE "Unexpected token")>>, 0, "adapter")
            /\ UNCHANGED <<app, slots, budget, res, stack, idx, act, cur, callStack,
                           log, raised, sentBy>>
       ELSE LET id == IF hasId THEN <<"client", r>> ELSE <<"nanoid", r>>
                c == ComposeStack(app, path, method)
            IN  IF c.kind = "throw"
                THEN \* runPipeline rejects: the catch of the message handler
                     /\ req' = [req EXCEPT ![r] = [st |-> "failed", id |-> id,
                                                   method |-> method, path |-> path,
                                                   params |-> <<>>]]
                     /\ wire' = wire \o Tagged(<<ErrorEnvelope("URI malformed")>>, 0, "adapter")
                     /\ UNCHANGED <<app, slots, budget, res, stack, idx, act, cur,
                                    callStack, log, raised, sentBy>>
                ELSE /\ req' = [req EXCEPT ![r] =
                                  [st |-> "dispatched", id |-> id, method |-> method,
                                   path |-> path,
                                   params |-> ParamsAfter(c.stack, 0, NoErr, c.params)]]
                     /\ stack' = [stack EXCEPT ![r] = c.stack]
                     /\ DoNext(r, c.stack, 0, NewResponse(SocketMode(id)), NoErr, <<>>,
                               [p \in 1..Len(c.stack) |-> Idle])
                     /\ UNCHANGED <<app, slots, budget, raised>>

SocketMessage(r) == SocketMessageOf(r, Methods)

\* a call of a Response method by the running handler
ResponseCall(R2, out) ==
  /\ res' = [res EXCEPT ![cur] = R2]
  /\ wire' = wire \o Tagged(out, cur, "handler")
  /\ sentBy' = [sentBy EXCEPT ![cur] = IF out # <<>> THEN "handler" ELSE @]
  /\ act' = [act EXCEPT ![cur][Top].ops = @ + 1]
  /\ UNCHANGED <<app, slots, budget, req, stack, idx, cur, callStack, log, raised>>
  /\ UNCHANGED <<clientVars, netVars, chatVars>>

HandlerStatus ==
  /\ CanOp
  /\ \E code \in HandlerStatusCodes : ResponseCall(ResStatus(res[cur], code), <<>>)

HandlerSet ==
  /\ CanOp
  /\ ResponseCall(ResSet(res[cur], HtmlType), <<>>)

HandlerCookie ==
  /\ CanOp
  /\ Len(res[cur].cookies) < MaxCookies
  /\ \E c \in HandlerCookies : ResponseCall(ResCookie(res[cur], c), <<>>)

HandlerSend ==
  /\ CanOp
  /\ \E payload \in {StringPayload, ObjectPayload} :
       LET s == ResSend(res[cur], payload) IN ResponseCall(s.res, s.out)

HandlerJson ==
  /\ CanOp
  /\ LET s == ResJson(res[cur], ObjectPayload) IN ResponseCall(s.res, s.out)

HandlerEnd ==
  /\ CanOp
  /\ LET s == ResEnd(res[cur]) IN ResponseCall(s.res, s.out)

\* the running handler calls next(arg)
HandlerNext ==
  /\ CanOp
  /\ \E arg \in {NoErr} \cup Errors :
       /\ DoNext(cur, stack[cur], idx[cur], res[cur], arg, callStack,
                 [act[cur] EXCEPT ![Top].ops = @ + 1, ![Top].calledNext = TRUE])
       /\ req' = [req EXCEPT ![cur].params =
                    ParamsAfter(stack[cur], idx[cur], arg, @)]
       /\ raised' = [raised EXCEPT ![cur] =
                       IF Truthy(arg)
                       THEN Append(@, [pos |-> Top, err |-> arg, how |-> "next"])
                       ELSE @]
  /\ UNCHANGED <<app, slots, budget, stack>>
  /\ UNCHANGED <<clientVars, netVars, chatVars>>

\* the running handler throws (or its promise rejects): the catch of the
\* next() that invoked it calls next(error)
HandlerThrow ==
  /\ CanOp
  /\ \E e \in Errors \cup {Falsy} :
       /\ DoNext(cur, stack[cur], idx[cur], res[cur], e, Pop(callStack),
                 [act[cur] EXCEPT ![Top].ops = 0, ![Top].st = "done"])
       /\ req' = [req EXCEPT ![cur].params = ParamsAfter(stack[cur], idx[cur], e, @)]
       /\ raised' = [raised EXCEPT ![cur] = Append(@, [pos |-> Top, err |-> e, how |-> "throw"])]
  /\ UNCHANGED <<app, slots, budget, stack>>
  /\ UNCHANGED <<clientVars, netVars, chatVars>>

\* the running handler awaits something: it leaves the call stack
HandlerAwait ==
  /\ CanOp
  /\ act' = [act EXCEPT ![cur][Top].ops = @ + 1, ![cur][Top].st = "suspended"]
  /\ callStack' = Pop(callStack)
  /\ cur' = IF Len(callStack) = 1 THEN 0 ELSE cur
  /\ UNCHANGED <<app, slots, budget, req, res, stack, idx, wire, log, raised, sentBy>>
  /\ UNCHANGED <<clientVars, netVars, chatVars>>

\* the running handler returns
HandlerReturn ==
  /\ Running
  /\ act' = [act EXCEPT ![cur][Top].st = "done", ![cur][Top].ops = 0]
  /\ callStack' = Pop(callStack)
  /\ cur' = IF Len(callStack) = 1 THEN 0 ELSE cur
  /\ UNCHANGED <<app, slots, budget, req, res, stack, idx, wire, log, raised, sentBy>>
  /\ UNCHANGED <<clientVars, netVars, chatVars>>

\* what a suspended handler awaited settles: it runs again
Resume(r, p) ==
  /\ cur = 0
  /\ p \in DOMAIN act[r]
  /\ act[r][p].st = "suspended"
  /\ act' = [act EXCEPT ![r][p].st = "run"]
  /\ cur' = r
  /\ callStack' = <<p>>
  /\ UNCHANGED <<app, slots, budget, req, res, stack, idx, wire, log, raised, sentBy>>
  /\ UNCHANGED <<clientVars, netVars, chatVars>>

ResumeSome == \E r \in Reqs : \E p \in DOMAIN act[r] : Resume(r, p)

\* Dispatch of one request envelope whose handlers answer with json(), call
\* next(), throw and await.
DispatchNext ==
  \/ \E r \in Reqs : SocketMessage(r)
  \/ HandlerJson
  \/ HandlerNext
  \/ HandlerThrow
  \/ HandlerAwait
  \/ HandlerReturn
  \/ ResumeSome

\* One Response driven through its writing methods by one route handler.
ResponseNext ==
  \/ \E r \in Reqs : SocketMessage(r)
  \/ HandlerStatus
  \/ HandlerSet
  \/ HandlerCookie
  \/ HandlerSend
  \/ HandlerJson
  \/ HandlerEnd
  \/ HandlerReturn

vars == <<serverVars, clientVars, netVars, chatVars>>

Init == ServerInit(1, Apps, MaxOps)
Next == DispatchNext
Spec == Init /\ [][Next]_vars

MaxCalls == 4
ResponseInit == ServerInit(1, {AppTiny}, MaxCalls)
ResponseSpec == ResponseInit /\ [][ResponseNext]_vars

\* One connection carrying NumReq request envelopes whose pipelines interleave.
ConnInit == ServerInit(NumReq, {AppTiny}, MaxOps)
ConnSpec == ConnInit /\ [][DispatchNext]_vars

\* One request envelope to the application of the two-registration scenario.
ScenarioInit == ServerInit(1, {AppApi}, MaxOps)
ScenarioSpec == ScenarioInit /\ [][DispatchNext]_vars

(***************************************************************************)
(* composeStack on its own: registries of one route, of one middleware and *)
(* of several routes and middleware, and two requests whose stacks are     *)
(* composed and kept without being dispatched.                             *)
(***************************************************************************)
PatternUsersId == <<"/", "users", "/", ":id">>
RoutePatterns ==
  {PatternUsersId, PatternUser,
   <<"/", "users", "/", ":id?">>, <<"/", "users">>, <<"/", "users", "/">>, <<"/">>,
   <<"/", "files", "/", "*">>, <<"/", "files", "/", "*", "/", "x">>, <<"*">>, <<"/", "*">>}

Prefixes ==
  {<<"/">>, <<>>, <<"/", "api">>, <<"api">>, <<"/", "api", "/">>, <<"/", "users">>}

\* request paths that do not end in a slash; a request's path is never ""
\* (url.pathname || '/', payload.path || '/')
BasePaths ==
  {<<"/", "users">>, <<"/", "users", "/", "42">>, <<"/", "users", "/", "%">>,
   <<"/", "users", "/", "42", "/", "x">>, <<"/", "users", "/", "/", "42">>,
   <<"/", "api">>, <<"/", "apiary">>, <<"/", "api", "/", "users", "/", "7">>,
   <<"/", "files">>, <<"/", "files", "/", "a">>, <<"/", "files", "/", "a", "/", "x">>}

WithSlash(path) == path \o <<"/">>
ComposePaths == {<<"/">>} \cup BasePaths \cup {WithSlash(path) : path \in BasePaths}
ComposeMethods == {"GET", "POST"}

\* app.get(pattern, show)
PatternApps == {Register(EmptyApp, "GET", pattern, <<RouteH>>) : pattern \in RoutePatterns}

\* app.use(prefix, mw)
PrefixApps == {AppUse(EmptyApp, prefix, <<Mw>>) : prefix \in Prefixes}

\* app.get('/users/:id', show); app.use(mw); app.all('/users/:id?', audit, onError);
\* app.post('/users/:id', loadUser); app.use('/api', onError); app.get('/users', show)
AppMixed ==
  Register(
    AppUse(
      Register(
        Register(
          AppUse(Register(EmptyApp, "GET", PatternUsersId, <<RouteH>>), <<"/">>, <<Mw>>),
          "ALL", <<"/", "users", "/", ":id?">>, <<RouteH2, ErrMw>>),
        "POST", PatternUsersId, <<Hook>>),
      <<"/", "api">>, <<ErrMw>>),
    "GET", <<"/", "users">>, <<RouteH>>)

ComposeApps == PatternApps \cup PrefixApps \cup {AppMixed, AppErrorMw}

\* const stack = this.composeStack(req, req.method) for the r-th request
ComposeOf(r, paths) ==
  /\ r <= slots
  /\ req[r].st = "none"
  /\ \A q \in 1..(r - 1) : req[q].st # "none"
  /\ \E path \in paths, method \in ComposeMethods :
       LET c == ComposeStack(app, path, method) IN
       /\ req' = [req EXCEPT ![r] =
                    [st |-> IF c.kind = "throw" THEN "failed" ELSE "composed",
                     id |-> <<"nanoid", r>>, method |-> method, path |-> path,
                     params |-> c.params]]
       /\ stack' = [stack EXCEPT ![r] = IF c.kind = "throw" THEN <<>> ELSE c.stack]
  /\ UNCHANGED <<app, slots, budget, res, idx, act, cur, callStack, wire, log, raised,
                 sentBy>>
  /\ UNCHANGED <<clientVars, netVars, chatVars>>

Compose(r) == ComposeOf(r, ComposePaths)

ComposeNext == \E r \in Reqs : Compose(r)
ComposeInit == ServerInit(NumReq, ComposeApps, 0)
ComposeSpec == ComposeInit /\ [][ComposeNext]_vars

(***************************************************************************)
(* The same registry reached over both transports.  The first request of   *)
(* a run arrives as a socket envelope and the second as an HTTP request.   *)
(* To compare the two, a handler is a function of the request: it makes    *)
(* the calls of its script, in order, and returns.                         *)
(***************************************************************************)
TransportMethods == {"GET", "OPTIONS"}
TransportApps == {AppPlain, AppErrorMw, AppApi}

\* how readBody and parseBody end when they are called: the body is read
\* and parsed, readBody rejects with 'Payload too large' because the body
\* is longer than bodyLimit, or JSON.parse throws
BodyOutcomes == {"parsed", "Payload too large", "Unexpected token"}

\* a mutation of SkipBodyParsing: no body is read
SkipBodyParsingAlways(incoming) == TRUE

\* contentType.startsWith('multipart/form-data')
SkipBodyParsing(incoming) == incoming.multipart

\* the catch of handleHttp: a 500 written to the ServerResponse itself
RawError(details) ==
  [type |-> "http", id |-> <<"none", 0>>, status |-> StatusServerError,
   contentType |-> JsonType, body |-> ServerErrorBody(details), cookies |-> <<>>,
   message |-> ""]

\* handleHttp for the r-th request.  Nothing is shared before the await of
\* readBody, so the handler is taken from the point where the body is in.
HttpRequest(r) ==
  /\ cur = 0
  /\ r <= slots
  /\ req[r].st = "none"
  /\ \A q \in 1..(r - 1) : req[q].st # "none"
  /\ UNCHANGED <<clientVars, netVars, chatVars>>
  /\ \E path \in Paths, method \in TransportMethods, body \in BodyOutcomes,
        multipart \in BOOLEAN :
       LET id == <<"nanoid", r>>
           asked == [st |-> "none", id |-> id, method |-> method, path |-> path,
                     params |-> <<>>]
           incoming == [multipart |-> multipart, body |-> body]
       IN
       IF ~SkipBodyParsing(incoming) /\ body # "parsed"
       THEN \* readBody rejects, having called req.destroy(), or parseBody
            \* throws: the catch
            /\ req' = [req EXCEPT ![r] =
                         [asked EXCEPT !.st = IF body = "Payload too large"
                                              THEN "destroyed" ELSE "rejected"]]
            /\ wire' = wire \o Tagged(<<RawError(body)>>, r, "adapter")
            /\ UNCHANGED <<app, slots, budget, res, stack, idx, act, cur, callStack,
                           log, raised, sentBy>>
       ELSE IF method = "OPTIONS"
       THEN \* sockressRes.status(204).end(); return
            LET e == ResEnd(ResStatus(NewResponse(HttpMode(incoming)), StatusNoContent)) IN
            /\ req' = [req EXCEPT ![r] = [asked EXCEPT !.st = "preflight"]]
            /\ res' = [res EXCEPT ![r] = e.res]
            /\ wire' = wire \o Tagged(e.out, r, "adapter")
            /\ sentBy' = [sentBy EXCEPT ![r] = "adapter"]
            /\ UNCHANGED <<app, slots, budget, stack, idx, act, cur, callStack, log,
                           raised>>
       ELSE LET c == ComposeStack(app, path, method) IN
            IF c.kind = "throw"
            THEN \* runPipeline rejects: the catch
                 /\ req' = [req EXCEPT ![r] = [asked EXCEPT !.st = "failed"]]
                 /\ wire' = wire \o Tagged(<<RawError("URI malformed")>>, r, "adapter")
                 /\ UNCHANGED <<app, slots, budget, res, stack, idx, act, cur, callStack,
                                log, raised, sentBy>>
            ELSE /\ req' = [req EXCEPT ![r] =
                              [asked EXCEPT !.st = "dispatched",
                                            !.params = ParamsAfter(c.stack, 0, NoErr, c.params)]]
                 /\ stack' = [stack EXCEPT ![r] = c.stack]
                 /\ DoNext(r, c.stack, 0, NewResponse(HttpMode(incoming)), NoErr, <<>>,
                           [p \in 1..Len(c.stack) |-> Idle])
                 /\ UNCHANGED <<app, slots, budget, raised>>

\* what each handler of the registries does when it is invoked
ScriptOf(h) ==
  CASE h = Mw -> <<"next">>
    [] h = Hook -> <<"throw">>
    [] h = RouteH -> <<"status", "json">>
    [] h = ErrMw -> <<"json">>
    [] OTHER -> <<>>

\* the call the running handler makes next; "return" when its script is done
CurrentOp ==
  LET script == ScriptOf(stack[cur][Top].handler)
      done == act[cur][Top].ops
  IN  IF done < Len(script) THEN script[done + 1] ELSE "return"

ScriptStatus == Running /\ CurrentOp = "status" /\ HandlerStatus
ScriptJson == Running /\ CurrentOp = "json" /\ HandlerJson
\* next() with no argument
ScriptNext == Running /\ CurrentOp = "next" /\ HandlerNext /\ raised' = raised
\* throw new Error("E1")
ScriptThrow ==
  /\ Running /\ CurrentOp = "throw"
  /\ HandlerThrow
  /\ raised'[cur][Len(raised'[cur])].err = "E1"
ScriptReturn == Running /\ CurrentOp = "return" /\ HandlerReturn

TransportNext ==
  \/ SocketMessageOf(1, TransportMethods)
  \/ HttpRequest(2)
  \/ ScriptStatus
  \/ ScriptJson
  \/ ScriptNext
  \/ ScriptThrow
  \/ ScriptReturn

TransportInit == ServerInit(NumReq, TransportApps, MaxOps)
TransportSpec == TransportInit /\ [][TransportNext]_vars

(***************************************************************************)
(* SockressClient.  A socket is what wsFactory returned: its readyState    *)
(* (0 CONNECTING, 1 OPEN, 2 CLOSING, 3 CLOSED) and the ids of the request *)
(* envelopes written to it, in order.  The                                 *)
(* handlers attachSocketHandlers puts on a socket act on the client, not   *)
(* on the socket, so the events of a socket that this.ws no longer names   *)
(* still reach the client.                                                 *)
(***************************************************************************)
NumCalls == 2
MaxSockets == 2
MaxIn == 1

Calls == 1..NumCalls

Connecting == 0
Open == 1
Closing == 2
Closed == 3

NewSocket == [readyState |-> Connecting, sent |-> <<>>]

NoId == <<"none", 0>>
UnknownId == <<"nanoid", 0>>
\* nanoid(): an id no other call has
IdOf(c) == <<"nanoid", c>>

ErrUnavailable == "Socket transport is unavailable"
ErrFactory == "wsFactory threw"
ErrSocket == "Socket error"
ErrClosed == "Socket closed"
ErrClientClosed == "Client closed"
ErrTimeout == "Socket request timed out"
ErrEnvelope == "error envelope message"

NewCall == [pc |-> "idle", viaSocket |-> FALSE, noFallback |-> FALSE, http |-> 0,
            settles |-> 0, outcome |-> "none", error |-> "none"]

\* sendViaHttp up to its await of fetchImpl: the HTTP request is issued
SendViaHttp(call) == [call EXCEPT !.pc = "http", !.http = @ + 1]

\* a mutation of RequestCatch that rethrows whatever the call's options say
RequestCatchRethrows(call, error) ==
  [call EXCEPT !.error = error, !.pc = "done", !.outcome = "rejected"]

\* request()'s catch of a rejected sendViaSocket, and what follows it
RequestCatch(call, error) ==
  LET c1 == [call EXCEPT !.error = error] IN
  IF call.noFallback
  THEN [c1 EXCEPT !.pc = "done", !.outcome = "rejected"]
  ELSE SendViaHttp(c1)

\* resolve or reject of a responsePromise is called: a promise settles once,
\* and request(), which awaits it, goes on as soon as it does
Settle(call, how, value) ==
  LET c1 == [call EXCEPT !.settles = @ + 1] IN
  IF call.pc # "socket" THEN c1
  ELSE IF how = "resolve" THEN [c1 EXCEPT !.pc = "done", !.outcome = "socket"]
  ELSE RequestCatch(c1, value)

\* a mutation of PendingGet that takes whichever entry there is
PendingGetAny(p, id) == IF p = {} THEN {} ELSE {CHOOSE e \in p : TRUE}

\* this.pending.get(id)
PendingGet(p, id) == {e \in p : e.id = id}

\* this.pending.set(id, entry)
PendingSet(p, id, c) == {e \in p : e.id # id} \cup {[id |-> id, call |-> c]}

\* a mutation of ClearPending that empties the map
ClearPendingAll(pt, id) == [pending |-> {}, timers |-> {}]

\* a mutation of ClearPending that leaves the timeout armed
ClearPendingKeepsTimer(pt, id) ==
  [pending |-> {e \in pt.pending : e.id # id}, timers |-> pt.timers]

\* clearPending(id) on the pair of this.pending and the armed timeouts
ClearPending(pt, id) ==
  [pending |-> {e \in pt.pending : e.id # id}, timers |-> pt.timers \ {id}]

\* the loop of rejectAllPending: clearPending for the entries es in turn
RECURSIVE ClearEach(_, _)
ClearEach(pt, es) ==
  IF es = {} THEN pt
  ELSE LET e == CHOOSE x \in es : TRUE IN ClearEach(ClearPending(pt, e.id), es \ {e})

\* rejectAllPending(error)
RejectAllPending(error) ==
  LET pt == ClearEach([pending |-> pending, timers |-> timers], pending) IN
  /\ pending' = pt.pending
  /\ timers' = pt.timers
  /\ calls' = [c \in Calls |->
                 IF \E e \in pending : e.call = c
                 THEN Settle(calls[c], "reject", error) ELSE calls[c]]

\* canUseSocket() on the sockets socks
CanUseSocket(socks) ==
  /\ options.wsFactory = "present"
  /\ socketEnabled
  /\ ws # 0
  /\ socks[ws].readyState = Open

\* the queue written to the socket w of socks, oldest first
SendAll(socks, w, ids) == [socks EXCEPT ![w].sent = @ \o ids]

\* connect(), from the fields it reads: throws says whether wsFactory throws
Connect(opts, enabled, w, socks, throws) ==
  IF opts.wsFactory = "absent"
  THEN [socketEnabled |-> FALSE, ws |-> w, sockets |-> socks, threw |-> FALSE]
  ELSE IF w # 0 /\ socks[w].readyState = Open
  THEN [socketEnabled |-> enabled, ws |-> w, sockets |-> socks, threw |-> FALSE]
  ELSE IF throws
  THEN [socketEnabled |-> enabled, ws |-> w, sockets |-> socks, threw |-> TRUE]
  ELSE [socketEnabled |-> enabled, ws |-> Len(socks) + 1,
        sockets |-> Append(socks, NewSocket), threw |-> FALSE]

\* wsFactory makes at most MaxSockets sockets
WithinSockets(k) == Len(k.sockets) <= MaxSockets

OptionSets ==
  [wsFactory : {"present", "absent"}, autoConnect : BOOLEAN, preferSocket : BOOLEAN]

\* new SockressClient(options)
ClientInit ==
  /\ ServerQuiet
  /\ NoAdapter
  /\ NoChat
  /\ options \in OptionSets
  /\ \E throws \in BOOLEAN :
       LET k == IF options.autoConnect
                THEN Connect(options, TRUE, 0, <<>>, throws)
                ELSE [socketEnabled |-> TRUE, ws |-> 0, sockets |-> <<>>, threw |-> FALSE]
       IN  /\ socketEnabled = k.socketEnabled
           /\ ws = k.ws
           /\ sockets = k.sockets
  /\ reconnectAttempts = 0
  /\ pending = {}
  /\ timers = {}
  /\ queue = <<>>
  /\ closeRequested = FALSE
  /\ reconnectTimers = 0
  /\ calls = [c \in Calls |-> NewCall]
  /\ backoff = [k |-> 0, delay |-> 0]
  /\ inbox = [n |-> 0, last |-> [type |-> "none", id |-> NoId]]

(***************************************************************************)
(* Client actions.  Each is one task of the event loop: a call made by the *)
(* application, an event of a socket, a timer, or the settling of what a   *)
(* request awaits, together with the continuations it makes runnable.      *)
(***************************************************************************)
\* request(options), up to sendViaSocket's await of connect() or to the
\* HTTP request
Request(c) ==
  /\ calls[c].pc = "idle"
  /\ \A d \in 1..(c - 1) : calls[d].pc # "idle"
  /\ \E noFallback \in BOOLEAN, throws \in BOOLEAN :
       LET call == [calls[c] EXCEPT !.noFallback = noFallback] IN
       IF options.preferSocket /\ socketEnabled
       THEN LET k == Connect(options, socketEnabled, ws, sockets, throws)
                c1 == [call EXCEPT !.viaSocket = TRUE]
            IN  /\ WithinSockets(k)
                /\ socketEnabled' = k.socketEnabled
                /\ ws' = k.ws
                /\ sockets' = k.sockets
                /\ calls' = [calls EXCEPT ![c] =
                               IF options.wsFactory = "absent"
                               THEN RequestCatch(c1, ErrUnavailable)
                               ELSE IF k.threw THEN RequestCatch(c1, ErrFactory)
                               ELSE [c1 EXCEPT !.pc = "awaiting"]]
       ELSE /\ calls' = [calls EXCEPT ![c] = SendViaHttp(call)]
            /\ UNCHANGED <<socketEnabled, ws, sockets>>
  /\ UNCHANGED <<options, reconnectAttempts, pending, timers, queue, closeRequested,
                 reconnectTimers, inbox>>
  /\ UNCHANGED backoff
  /\ UNCHANGED <<serverVars, netVars, chatVars>>

\* a mutation of SendViaSocket that arms no timeout for a queued envelope
SendViaSocketNoTimer(c) ==
  /\ calls[c].pc = "awaiting"
  /\ pending' = PendingSet(pending, IdOf(c), c)
  /\ IF CanUseSocket(sockets)
     THEN /\ sockets' = SendAll(sockets, ws, <<IdOf(c)>>)
          /\ queue' = queue
          /\ timers' = timers \cup {IdOf(c)}
     ELSE /\ queue' = Append(queue, IdOf(c))
          /\ sockets' = sockets
          /\ timers' = timers
  /\ calls' = [calls EXCEPT ![c].pc = "socket"]
  /\ UNCHANGED <<options, ws, reconnectAttempts, socketEnabled, closeRequested,
                 reconnectTimers, inbox>>
  /\ UNCHANGED backoff
  /\ UNCHANGED <<serverVars, netVars, chatVars>>

\* sendViaSocket after its awaits of connect() and serializeBodyForSocket():
\* the entry and its timeout, then the envelope sent or queued
SendViaSocket(c) ==
  /\ calls[c].pc = "awaiting"
  /\ pending' = PendingSet(pending, IdOf(c), c)
  /\ timers' = timers \cup {IdOf(c)}
  /\ IF CanUseSocket(sockets)
     THEN /\ sockets' = SendAll(sockets, ws, <<IdOf(c)>>)
          /\ queue' = queue
     ELSE /\ queue' = Append(queue, IdOf(c))
          /\ sockets' = sockets
  /\ calls' = [calls EXCEPT ![c].pc = "socket"]
  /\ UNCHANGED <<options, ws, reconnectAttempts, socketEnabled, closeRequested,
                 reconnectTimers, inbox>>
  /\ UNCHANGED backoff
  /\ UNCHANGED <<serverVars, netVars, chatVars>>

\* flushQueue() on the sockets socks
FlushQueue(socks) ==
  IF ws = 0 \/ socks[ws].readyState # Open
  THEN /\ sockets' = socks
       /\ queue' = queue
  ELSE /\ sockets' = SendAll(socks, ws, queue)
       /\ queue' = <<>>

\* the open event of socket s: handleOpen
SocketOpen(s) ==
  /\ s \in DOMAIN sockets
  /\ sockets[s].readyState = Connecting
  /\ reconnectAttempts' = 0
  /\ backoff' = [backoff EXCEPT !.k = 0]
  /\ FlushQueue([sockets EXCEPT ![s].readyState = Open])
  /\ UNCHANGED <<options, ws, pending, timers, socketEnabled, closeRequested,
                 reconnectTimers, calls, inbox>>
  /\ UNCHANGED <<serverVars, netVars, chatVars>>

\* the error event of socket s: handleError
SocketError(s) ==
  /\ s \in DOMAIN sockets
  /\ sockets[s].readyState \in {Connecting, Open}
  /\ RejectAllPending(ErrSocket)
  /\ UNCHANGED <<options, sockets, ws, reconnectAttempts, queue, socketEnabled, closeRequested,
                 reconnectTimers, inbox>>
  /\ UNCHANGED backoff
  /\ UNCHANGED <<serverVars, netVars, chatVars>>

\* options.reconnectInterval and options.maxReconnectInterval, in units of
\* the default interval
ReconnectInterval == 2
MaxReconnectInterval == 3

Min(a, b) == IF a < b THEN a ELSE b

\* a mutation of ReconnectDelay without the ceiling
ReconnectDelayUncapped(attempts) == ReconnectInterval * attempts

\* scheduleReconnect: the delay given to setTimeout
ReconnectDelay(attempts) == Min(ReconnectInterval * attempts, MaxReconnectInterval)

\* a mutation of ScheduleReconnect that never arms the timer
ScheduleReconnectNever == UNCHANGED <<reconnectAttempts, reconnectTimers, backoff>>

\* scheduleReconnect()
ScheduleReconnect ==
  IF ~socketEnabled \/ options.wsFactory = "absent"
  THEN UNCHANGED <<reconnectAttempts, reconnectTimers, backoff>>
  ELSE /\ reconnectAttempts' = reconnectAttempts + 1
       /\ reconnectTimers' = reconnectTimers + 1
       /\ backoff' = [k |-> backoff.k + 1, delay |-> ReconnectDelay(reconnectAttempts')]

\* the close event of socket s: handleClose
SocketClose(s) ==
  /\ s \in DOMAIN sockets
  /\ sockets[s].readyState # Closed
  /\ sockets' = [sockets EXCEPT ![s].readyState = Closed]
  /\ RejectAllPending(ErrClosed)
  /\ ScheduleReconnect
  /\ UNCHANGED <<options, ws, queue, socketEnabled, closeRequested, inbox>>
  /\ UNCHANGED <<serverVars, netVars, chatVars>>

\* the ids of the request envelopes written to some socket
SentIds ==
  UNION {{sockets[s].sent[i] : i \in 1..Len(sockets[s].sent)} : s \in DOMAIN sockets}

PushTypes == {"message", "join", "leave", "room_created", "room_deleted", "error"}
EnvelopeTypes == {"response", "error", "message"}

\* handleSocketMessage(raw) for the envelope m
HandleSocketMessage(m) ==
  IF m.id = NoId /\ m.type \in PushTypes
  THEN UNCHANGED <<pending, timers, calls>>
  ELSE LET found == IF m.type = "error" /\ m.id = NoId THEN {} ELSE PendingGet(pending, m.id)
       IN  IF found = {}
           THEN UNCHANGED <<pending, timers, calls>>
           ELSE LET e == CHOOSE x \in found : TRUE
                    pt == ClearPending([pending |-> pending, timers |-> timers], m.id)
                IN  /\ pending' = pt.pending
                    /\ timers' = pt.timers
                    /\ calls' = [calls EXCEPT ![e.call] =
                                   IF m.type = "error"
                                   THEN Settle(@, "reject", ErrEnvelope)
                                   ELSE Settle(@, "resolve", m)]

\* the message event of socket s: handleMessage
SocketMessageIn(s) ==
  /\ s \in DOMAIN sockets
  /\ sockets[s].readyState = Open
  /\ inbox.n < MaxIn
  /\ \E type \in EnvelopeTypes, id \in {NoId, UnknownId} \cup SentIds :
       LET m == [type |-> type, id |-> id] IN
       /\ inbox' = [n |-> inbox.n + 1, last |-> m]
       /\ HandleSocketMessage(m)
  /\ UNCHANGED <<options, sockets, ws, reconnectAttempts, queue, socketEnabled,
                 closeRequested, reconnectTimers>>
  /\ UNCHANGED backoff
  /\ UNCHANGED <<serverVars, netVars, chatVars>>

\* the timeout armed by sendViaSocket for id fires
RequestTimeout(c) ==
  /\ IdOf(c) \in timers
  /\ LET pt == ClearPending([pending |-> pending, timers |-> timers \ {IdOf(c)}], IdOf(c))
     IN  /\ pending' = pt.pending
         /\ timers' = pt.timers
  /\ calls' = [calls EXCEPT ![c] = Settle(@, "reject", ErrTimeout)]
  /\ UNCHANGED <<options, sockets, ws, reconnectAttempts, queue, socketEnabled,
                 closeRequested, reconnectTimers, inbox>>
  /\ UNCHANGED backoff
  /\ UNCHANGED <<serverVars, netVars, chatVars>>

\* a timer armed by scheduleReconnect fires; connect()'s rejection is swallowed
ReconnectTimer ==
  /\ reconnectTimers > 0
  /\ reconnectTimers' = reconnectTimers - 1
  /\ \E throws \in BOOLEAN :
       LET k == Connect(options, socketEnabled, ws, sockets, throws) IN
       /\ WithinSockets(k)
       /\ socketEnabled' = k.socketEnabled
       /\ ws' = k.ws
       /\ sockets' = k.sockets
  /\ UNCHANGED <<options, reconnectAttempts, pending, timers, queue, closeRequested,
                 calls, inbox>>
  /\ UNCHANGED backoff
  /\ UNCHANGED <<serverVars, netVars, chatVars>>

\* the application calls connect() on the client it made with autoConnect
\* false, before anything else has made a socket
UserConnect ==
  /\ ~closeRequested
  /\ ~options.autoConnect
  /\ sockets = <<>>
  /\ \E throws \in BOOLEAN :
       LET k == Connect(options, socketEnabled, ws, sockets, throws) IN
       /\ WithinSockets(k)
       /\ socketEnabled' = k.socketEnabled
       /\ ws' = k.ws
       /\ sockets' = k.sockets
  /\ UNCHANGED <<options, reconnectAttempts, pending, timers, queue, closeRequested,
                 reconnectTimers, calls, inbox>>
  /\ UNCHANGED backoff
  /\ UNCHANGED <<serverVars, netVars, chatVars>>

\* close()
Close ==
  /\ ~closeRequested
  /\ closeRequested' = TRUE
  /\ socketEnabled' = FALSE
  /\ sockets' = IF ws # 0 /\ sockets[ws].readyState \in {Connecting, Open}
                THEN [sockets EXCEPT ![ws].readyState = Closing] ELSE sockets
  /\ ws' = 0
  /\ queue' = <<>>
  /\ RejectAllPending(ErrClientClosed)
  /\ UNCHANGED <<options, reconnectAttempts, reconnectTimers, inbox>>
  /\ UNCHANGED backoff
  /\ UNCHANGED <<serverVars, netVars, chatVars>>

\* what sendViaHttp awaits settles: the response, or fetchImpl's rejection
HttpComplete(c) ==
  /\ calls[c].pc = "http"
  /\ \E result \in {"http response", "http rejection"} :
       calls' = [calls EXCEPT ![c].pc = "done", ![c].outcome = result]
  /\ UNCHANGED <<options, sockets, ws, reconnectAttempts, pending, timers, queue,
                 socketEnabled, closeRequested, reconnectTimers, inbox>>
  /\ UNCHANGED backoff
  /\ UNCHANGED <<serverVars, netVars, chatVars>>

ClientNext ==
  \/ \E c \in Calls : Request(c)
  \/ \E c \in Calls : SendViaSocket(c)
  \/ \E s \in 1..MaxSockets : SocketOpen(s)
  \/ \E s \in 1..MaxSockets : SocketError(s)
  \/ \E s \in 1..MaxSockets : SocketClose(s)
  \/ \E s \in 1..MaxSockets : SocketMessageIn(s)
  \/ \E c \in Calls : RequestTimeout(c)
  \/ ReconnectTimer
  \/ UserConnect
  \/ Close
  \/ \E c \in Calls : HttpComplete(c)

ClientSpec == ClientInit /\ [][ClientNext]_vars

(***************************************************************************)
(* Vocabulary of the claims.                                               *)
(***************************************************************************)
\* the messages written through the Response of envelope r
Msgs(r) == SelectSeq(wire, LAMBDA m : m.by = r)

\* runPipeline has run for r and none of the handlers it invoked is running
\* or suspended
Complete(r) ==
  /\ req[r].st = "dispatched"
  /\ \A p \in DOMAIN act[r] : act[r][p].st \in {"idle", "done"}

NoHandlerSent(r) == sentBy[r] # "handler"

EveryHandlerCalledNext(r) ==
  \A p \in DOMAIN act[r] : act[r][p].st = "done" => act[r][p].calledNext

NoErrorHandlerRegistered ==
  /\ \A i \in 1..Len(app.middlewares) : ~app.middlewares[i].isErrorHandler
  /\ \A i \in 1..Len(app.routes) :
       \A k \in 1..Len(app.routes[i].handlers) : ~IsErrorHandlerFn(app.routes[i].handlers[k])

IsNotFound(m) ==
  /\ m.msg.type = "response"
  /\ m.msg.status = StatusNotFound
  /\ m.msg.body = NotFoundBody
  /\ m.who = "engine"

IsServerError(m, err) ==
  /\ m.msg.type = "response"
  /\ m.msg.status = StatusServerError
  /\ m.msg.body = ServerErrorBody(err)
  /\ m.who = "engine"

\* C1 as stated: whenever no handler sent a response, the finished dispatch
\* has emitted exactly one response, a 404.
C1_Original ==
  \A r \in Reqs :
    (Complete(r) /\ NoHandlerSent(r)) => (Len(Msgs(r)) = 1 /\ IsNotFound(Msgs(r)[1]))

\* C1 (amended): a dispatch whose stack was composed, in which no handler sent
\* a response, no handler threw or passed an error to next(), and every
\* invoked handler called next(), has emitted exactly one response when it
\* ends, the 404; and no dispatch ever emits more than one response.
C1_NotFoundOnce ==
  \A r \in Reqs :
    /\ Len(Msgs(r)) <= 1
    /\ (Complete(r) /\ NoHandlerSent(r) /\ raised[r] = <<>> /\ EveryHandlerCalledNext(r))
         => (Len(Msgs(r)) = 1 /\ IsNotFound(Msgs(r)[1]) /\ Msgs(r)[1].msg.id = req[r].id)

\* C1 witness: two handlers ran, both called next(), and the 404 is out.
C1_Witness ==
  \E r \in Reqs :
    /\ Complete(r) /\ NoHandlerSent(r) /\ raised[r] = <<>> /\ EveryHandlerCalledNext(r)
    /\ Len(log[r]) >= 2
    /\ Len(Msgs(r)) = 1 /\ IsNotFound(Msgs(r)[1])

TruthyThrows(r) ==
  {i \in 1..Len(raised[r]) : raised[r][i].how = "throw" /\ Truthy(raised[r][i].err)}

\* C2 as stated: once a handler has thrown an error and no error handler is
\* registered, exactly one response is out: a 500 with the thrown message.
C2_Original ==
  \A r \in Reqs :
    (NoErrorHandlerRegistered /\ TruthyThrows(r) # {})
      => /\ Len(Msgs(r)) = 1
         /\ \E i \in TruthyThrows(r) : IsServerError(Msgs(r)[1], raised[r][i].err)

\* C2 (amended): when no error handler is registered and a handler throws a
\* truthy value, then as the throw is caught exactly one response is out for
\* the request: the engine's 500 carrying the thrown value if nothing had
\* been sent before, else the response sent before, unchanged.
C2_ThrowGives500 ==
  [][\A r \in Reqs :
       (/\ NoErrorHandlerRegistered
        /\ Len(raised'[r]) = Len(raised[r]) + 1
        /\ raised'[r][Len(raised'[r])].how = "throw"
        /\ Truthy(raised'[r][Len(raised'[r])].err))
       => /\ res'[r].sent
          /\ Len(Msgs(r)') = 1
          /\ ~res[r].sent => IsServerError(Msgs(r)'[1], raised'[r][Len(raised'[r])].err)
          /\ res[r].sent => Msgs(r)' = Msgs(r)]_vars

\* C2 witness: a handler threw E1 after another handler had run, no error
\* handler is registered, and the 500 with E1 is the one response.
C2_Witness ==
  \E r \in Reqs :
    /\ NoErrorHandlerRegistered
    /\ Len(log[r]) >= 2
    /\ raised[r] = <<[pos |-> 2, err |-> "E1", how |-> "throw"]>>
    /\ Len(Msgs(r)) = 1 /\ IsServerError(Msgs(r)[1], "E1")

\* an error handler registered with use() under a prefix matching the path
ErrorMiddlewareInStack(r) ==
  \E p \in 1..Len(stack[r]) : stack[r][p].kind = "mw" /\ stack[r][p].isErrorHandler

\* C3: when an error handler is registered with use() under a prefix
\* matching the path, an error thrown by a middleware, parameter hook or
\* route handler of the stack is handed to a registered error handler.
C3_ErrorsReachHandler ==
  \A r \in Reqs :
    \A i \in TruthyThrows(r) :
      (ErrorMiddlewareInStack(r) /\ ~stack[r][raised[r][i].pos].isErrorHandler)
        => \E k \in 1..Len(log[r]) :
             /\ stack[r][log[r][k].pos].isErrorHandler
             /\ log[r][k].err = raised[r][i].err

\* C4: sent is a one-way latch: once set it stays set and nothing more is
\* written; the step that sets it writes exactly one message, with the
\* status, content type and cookies in effect at that send; before it nothing
\* is written.
C4_SentLatch ==
  [][\A r \in Reqs :
       /\ res[r].sent => (res'[r].sent /\ Msgs(r)' = Msgs(r))
       /\ (~res[r].sent /\ res'[r].sent)
            => /\ Len(Msgs(r)') = 1
               /\ Msgs(r)'[1].msg.status = res'[r].statusCode
               /\ Msgs(r)'[1].msg.contentType = res'[r].contentType
               /\ Msgs(r)'[1].msg.cookies = res'[r].cookies
       /\ ~res'[r].sent => Msgs(r)' = <<>>]_vars

\* C4 witness: after the first send the handler changed the status and the
\* cookies and sent again; the one message still has the first send's values.
C4_Witness ==
  \E r \in Reqs :
    /\ res[r].sent
    /\ Len(Msgs(r)) = 1
    /\ Msgs(r)[1].msg.status # res[r].statusCode
    /\ Msgs(r)[1].msg.cookies # res[r].cookies
    /\ \E p \in DOMAIN act[r] : act[r][p].ops = MaxCalls

Responses == {i \in 1..Len(wire) : wire[i].msg.type = "response"}

\* C5: every response envelope on the socket carries the id of the request
\* whose pipeline wrote it, and no id is answered twice.
C5_Correlated ==
  \A i \in Responses :
    /\ wire[i].by \in Reqs
    /\ wire[i].msg.id = req[wire[i].by].id
    /\ \A j \in Responses : wire[j].msg.id = wire[i].msg.id => j = i

\* C5 witness: both requests were in flight together and the second one's
\* response envelope went out first.
C5_Witness ==
  /\ Len(wire) = 2
  /\ wire[1].msg.type = "response" /\ wire[1].by = 2 /\ wire[1].who = "handler"
  /\ wire[2].msg.type = "response" /\ wire[2].by = 1 /\ wire[2].who = "handler"

\* the pending entries an envelope's id names
Hit(m) == {e \in pending : e.id = m.id}

\* C6: when the client handles an incoming envelope of type response or
\* error whose id matches a pending entry, exactly that entry leaves the
\* pending map, its timeout is cleared and its call is resolved (response) or
\* rejected (error), every other call staying as it was; when the envelope
\* has no id or its id matches no pending entry, the pending map, the
\* timeouts and every call stay as they were.
C6_Correlation ==
  [][inbox'.n > inbox.n =>
       LET m == inbox'.last IN
       IF m.type \in {"response", "error"} /\ m.id # NoId /\ Hit(m) # {}
       THEN /\ pending' = pending \ Hit(m)
            /\ timers' = timers \ {m.id}
            /\ \A c \in Calls :
                 IF \E e \in Hit(m) : e.call = c
                 THEN /\ calls'[c].settles = calls[c].settles + 1
                      /\ m.type = "response" =>
                           calls'[c].pc = "done" /\ calls'[c].outcome = "socket"
                      /\ m.type = "error" => calls'[c].error = ErrEnvelope
                 ELSE calls'[c] = calls[c]
       ELSE (m.id = NoId \/ Hit(m) = {}) =>
              /\ pending' = pending
              /\ timers' = timers
              /\ calls' = calls]_vars

\* a response envelope resolved the first call while the second call was
\* pending, and the second call is pending still
C6_Witness ==
  /\ inbox.last = [type |-> "response", id |-> IdOf(1)]
  /\ calls[1].outcome = "socket"
  /\ calls[2].pc = "socket"
  /\ \E e \in pending : e.call = 2

\* C7: resolve or reject is called at most once for each call's response
\* promise; the pending map holds at most one entry for an id; an entry is
\* in the map exactly as long as its timeout is armed, and only while its
\* call is unsettled, so that nothing that comes after the removal finds the
\* entry or its timeout.
C7_PendingOnce ==
  /\ \A c \in Calls : calls[c].settles <= 1
  /\ \A e1, e2 \in pending : e1.id = e2.id => e1 = e2
  /\ \A e \in pending :
       calls[e.call].settles = 0 /\ calls[e.call].pc = "socket" /\ e.id \in timers
  /\ \A id \in timers : \E e \in pending : e.id = id

\* the first call timed out, and a response envelope with its id was handled
\* afterwards
C7_Witness ==
  /\ inbox.last = [type |-> "response", id |-> IdOf(1)]
  /\ calls[1].error = ErrTimeout
  /\ calls[1].settles = 1

\* C8: a call that went the socket way with HTTP fallback not disabled has
\* issued one HTTP request if its socket attempt failed and none otherwise,
\* it is waiting for that request or done, and when it is done its outcome
\* is the outcome of the HTTP request.
C8_FallbackOnce ==
  \A c \in Calls :
    calls[c].viaSocket /\ ~calls[c].noFallback =>
      /\ calls[c].http = IF calls[c].error # "none" THEN 1 ELSE 0
      /\ calls[c].error # "none" =>
           /\ calls[c].pc \in {"http", "done"}
           /\ calls[c].pc = "done" =>
                calls[c].outcome \in {"http response", "http rejection"}

\* one call whose socket factory threw and one whose socket closed have
\* both completed over HTTP
C8_Witness ==
  \E c, d \in Calls :
    /\ calls[c].viaSocket /\ ~calls[c].noFallback /\ calls[c].error = ErrFactory
    /\ calls[c].outcome = "http response"
    /\ calls[d].viaSocket /\ ~calls[d].noFallback /\ calls[d].error = ErrClosed
    /\ calls[d].outcome = "http response"

\* C9: on a client that prefers the socket, a call made with
\* disableHttpFallback issues no HTTP request.
C9_NoHttpWhenDisabled ==
  \A c \in Calls :
    options.preferSocket /\ calls[c].noFallback /\ calls[c].pc # "idle" =>
      calls[c].http = 0

\* C10: once close() has been called, no step makes another socket.
C10_ClosedLatch ==
  [][closeRequested => Len(sockets') = Len(sockets)]_vars

\* the sockets whose open event a step delivers
Opened == {s \in DOMAIN sockets : sockets[s].readyState = Connecting
                                    /\ sockets'[s].readyState = Open}

\* C11: a step in which a socket's open event is handled sets the
\* reconnect-attempt counter to zero, leaves the queue empty, and has written
\* the queued envelopes to a socket in the order they were queued.
C11_OpenFlushes ==
  [][Opened # {} =>
       /\ reconnectAttempts' = 0
       /\ queue' = <<>>
       /\ queue # <<>> =>
            \E w \in DOMAIN sockets : sockets'[w].sent = sockets[w].sent \o queue]_vars

\* the sockets whose close event a step delivers
ClosedNow == {s \in DOMAIN sockets : sockets[s].readyState # Closed
                                       /\ sockets'[s].readyState = Closed}

\* a step delivers an error event that rejects a pending request
ErroredNow == \E c \in Calls : calls[c].error # ErrSocket /\ calls'[c].error = ErrSocket

\* C12, as stated: on a close event and on an error event, while the client
\* is not closed, every pending request is rejected and a reconnect is
\* scheduled.
C12_Original ==
  [][(ClosedNow # {} \/ ErroredNow) /\ ~closeRequested =>
       pending' = {} /\ reconnectTimers' = reconnectTimers + 1]_vars

\* C12 (amended): a close event rejects every pending request with 'Socket
\* closed' and, while the client is not closed, arms one reconnect timer and
\* adds one to the attempt counter (on a closed client it arms none); an
\* error event rejects every pending request with 'Socket error' and arms no
\* timer.
C12_CloseSchedules ==
  [][/\ ClosedNow # {} =>
          /\ pending' = {}
          /\ \A e \in pending : /\ calls'[e.call].settles = calls[e.call].settles + 1
                                /\ calls'[e.call].error = ErrClosed
          /\ IF closeRequested
             THEN reconnectTimers' = reconnectTimers
             ELSE /\ reconnectTimers' = reconnectTimers + 1
                  /\ reconnectAttempts' = reconnectAttempts + 1
     /\ ErroredNow =>
          /\ pending' = {}
          /\ \A e \in pending : /\ calls'[e.call].settles = calls[e.call].settles + 1
                                /\ calls'[e.call].error = ErrSocket
          /\ reconnectTimers' = reconnectTimers]_vars

\* one request was rejected by a close event and another by an error event,
\* and a reconnect is scheduled
C12_Witness ==
  \E c, d \in Calls :
    /\ calls[c].error = ErrClosed
    /\ calls[d].error = ErrSocket
    /\ reconnectTimers > 0

MaxPeers == 2
MaxTicks == 3
MaxMsgs == 1
MaxCloses == 2

NoOrigin == ""
Origins == {NoOrigin, "https://x.com", "https://y.com"}
Pathnames == {"/sockress", "/other"}
CorsOrigins == {[kind |-> "string", val |-> "*"],
                [kind |-> "string", val |-> "https://y.com"],
                [kind |-> "array", val |-> <<"https://y.com">>]}

\* a mutation of IsOriginAllowed that lets every origin in
IsOriginAllowedAny(originHeader, allowed) == TRUE

\* isOriginAllowed(originHeader, allowed)
IsOriginAllowed(originHeader, allowed) ==
  IF originHeader = NoOrigin \/ (allowed.kind = "string" /\ allowed.val = "*") THEN TRUE
  ELSE IF allowed.kind = "array"
  THEN \E i \in DOMAIN allowed.val : allowed.val[i] = originHeader
  ELSE allowed.val = originHeader

\* the socket of an upgrade attempt after socket.destroy()
Destroyed(pathname, origin) ==
  [pathname |-> pathname, origin |-> origin, state |-> "destroyed", isAlive |-> FALSE,
   pings |-> 0, owed |-> FALSE, received |-> 0, sent |-> 0]

\* handleSocket(socket, req): the connection as it is registered
HandleSocket(pathname, origin) ==
  [pathname |-> pathname, origin |-> origin, state |-> "open", isAlive |-> TRUE,
   pings |-> 0, owed |-> FALSE, received |-> 0, sent |-> 0]

\* httpServer.on('upgrade')
Upgrade ==
  /\ server = "listening"
  /\ Len(peers) < MaxPeers
  /\ \E pathname \in Pathnames, origin \in Origins :
       peers' = Append(peers,
                  IF pathname # config.socketPath THEN Destroyed(pathname, origin)
                  ELSE IF ~IsOriginAllowed(origin, config.corsOrigin)
                  THEN Destroyed(pathname, origin)
                  ELSE HandleSocket(pathname, origin))
  /\ UNCHANGED <<config, server, wss, heartbeatInterval, shutdownRegistered,
                 shuttingDown, listeners, closes, ticks>>
  /\ UNCHANGED <<serverVars, clientVars, chatVars>>

\* wss.clients
Clients == {k \in DOMAIN peers : peers[k].state \in {"open", "terminated"}}

\* a message of connection k is handled; it is answered or not
PeerMessage(k) ==
  /\ k \in DOMAIN peers
  /\ peers[k].state = "open"
  /\ peers[k].received < MaxMsgs
  /\ \E answers \in 0..1 :
       peers' = [peers EXCEPT ![k].received = @ + 1, ![k].sent = @ + answers]
  /\ UNCHANGED <<config, server, wss, heartbeatInterval, shutdownRegistered,
                 shuttingDown, listeners, closes, ticks>>
  /\ UNCHANGED <<serverVars, clientVars, chatVars>>

\* a mutation of OnPong that leaves the flag as it is
OnPongIgnored(peer) == [peer EXCEPT !.owed = FALSE]

\* socket.on('pong')
OnPong(peer) == [peer EXCEPT !.isAlive = TRUE, !.owed = FALSE]

\* connection k answers the ping it was sent
Pong(k) ==
  /\ k \in DOMAIN peers
  /\ peers[k].state = "open"
  /\ peers[k].owed
  /\ peers' = [peers EXCEPT ![k] = OnPong(@)]
  /\ UNCHANGED <<config, server, wss, heartbeatInterval, shutdownRegistered,
                 shuttingDown, listeners, closes, ticks>>
  /\ UNCHANGED <<serverVars, clientVars, chatVars>>

\* the socket of connection k closes and leaves wss.clients
PeerClose(k) ==
  /\ k \in Clients
  /\ peers' = [peers EXCEPT ![k].state = "closed"]
  /\ UNCHANGED <<config, server, wss, heartbeatInterval, shutdownRegistered,
                 shuttingDown, listeners, closes, ticks>>
  /\ UNCHANGED <<serverVars, clientVars, chatVars>>

\* the body of the heartbeat's forEach for one client
Beat(peer) ==
  IF peer.isAlive = FALSE
  THEN [peer EXCEPT !.state = "terminated"]
  ELSE [peer EXCEPT !.isAlive = FALSE, !.pings = @ + 1, !.owed = TRUE]

\* the heartbeat interval fires
Tick ==
  /\ heartbeatInterval = "armed"
  /\ ticks < MaxTicks
  /\ ticks' = ticks + 1
  /\ peers' = [k \in DOMAIN peers |-> IF k \in Clients THEN Beat(peers[k]) ELSE peers[k]]
  /\ UNCHANGED <<config, server, wss, heartbeatInterval, shutdownRegistered,
                 shuttingDown, listeners, closes>>
  /\ UNCHANGED <<serverVars, clientVars, chatVars>>

ProcessEvents == {"beforeExit", "SIGINT", "SIGTERM"}

\* listen(port): the servers, startHeartbeat() and registerShutdownHooks()
Listen ==
  /\ server = "none"
  /\ server' = "listening"
  /\ wss' = "open"
  /\ heartbeatInterval' = "armed"
  /\ shutdownRegistered' = TRUE
  /\ listeners' = IF shutdownRegistered THEN listeners ELSE ProcessEvents
  /\ UNCHANGED <<config, shuttingDown, peers, closes, ticks>>
  /\ UNCHANGED <<serverVars, clientVars, chatVars>>

\* close() up to its await: server.close(cb) and wss.close(cb) are called,
\* or Promise.resolve() stands in for a server that is not there
CloseCall(by) ==
  /\ closes' = Append(closes, [by |-> by, pc |-> "awaiting",
                               http |-> IF server = "none" THEN "ok" ELSE "pending",
                               wss |-> IF wss = "none" THEN "ok" ELSE "pending"])
  /\ server' = IF server = "listening" THEN "closing" ELSE server
  /\ wss' = IF wss = "open" THEN "closing" ELSE wss

\* the application calls close()
AppClose ==
  /\ Len(closes) < MaxCloses
  /\ CloseCall("application")
  /\ UNCHANGED <<config, heartbeatInterval, shutdownRegistered, shuttingDown, listeners,
                 peers, ticks>>
  /\ UNCHANGED <<serverVars, clientVars, chatVars>>

\* finalize, the listener registerShutdownHooks gives process.once
Finalize ==
  IF shuttingDown
  THEN UNCHANGED <<closes, server, wss, shuttingDown>>
  ELSE CloseCall("signal") /\ shuttingDown' = TRUE

\* the process emits event e, which finalize listens to once
Signal(e) ==
  /\ e \in listeners
  /\ shuttingDown \/ Len(closes) < MaxCloses
  /\ listeners' = listeners \ {e}
  /\ Finalize
  /\ UNCHANGED <<config, heartbeatInterval, shutdownRegistered, peers, ticks>>
  /\ UNCHANGED <<serverVars, clientVars, chatVars>>

\* the callback of server.close() of the i-th close() is called
ServerClosed(i) ==
  /\ i \in DOMAIN closes
  /\ closes[i].http = "pending"
  /\ \E result \in {"ok", "err"} :
       /\ closes' = [closes EXCEPT ![i].http = result]
       /\ server' = IF result = "ok" THEN "closed" ELSE server
  /\ UNCHANGED <<config, wss, heartbeatInterval, shutdownRegistered, shuttingDown,
                 listeners, peers, ticks>>
  /\ UNCHANGED <<serverVars, clientVars, chatVars>>

\* the callback of wss.close() of the i-th close() is called
WssClosed(i) ==
  /\ i \in DOMAIN closes
  /\ closes[i].wss = "pending"
  /\ \E result \in {"ok", "err"} :
       /\ closes' = [closes EXCEPT ![i].wss = result]
       /\ wss' = IF result = "ok" THEN "closed" ELSE wss
  /\ UNCHANGED <<config, server, heartbeatInterval, shutdownRegistered, shuttingDown,
                 listeners, peers, ticks>>
  /\ UNCHANGED <<serverVars, clientVars, chatVars>>

\* a mutation of AllFulfilled that does not wait for the socket server
AllFulfilledHttpOnly(cl) == cl.http = "ok"

\* Promise.all([...]) of close() is fulfilled
AllFulfilled(cl) == cl.http = "ok" /\ cl.wss = "ok"

\* Promise.all([...]) of close() is rejected
SomeRejected(cl) == cl.http = "err" \/ cl.wss = "err"

\* close() after its await: the heartbeat is cleared, or close() rejects
CloseSettles(i) ==
  /\ i \in DOMAIN closes
  /\ closes[i].pc = "awaiting"
  /\ \/ /\ SomeRejected(closes[i])
        /\ closes' = [closes EXCEPT ![i].pc = "rejected"]
        /\ UNCHANGED heartbeatInterval
     \/ /\ ~SomeRejected(closes[i])
        /\ AllFulfilled(closes[i])
        /\ closes' = [closes EXCEPT ![i].pc = "returned"]
        /\ heartbeatInterval' = IF heartbeatInterval = "none" THEN "none" ELSE "cleared"
  /\ UNCHANGED <<config, server, wss, shutdownRegistered, shuttingDown, listeners,
                 peers, ticks>>
  /\ UNCHANGED <<serverVars, clientVars, chatVars>>

\* SockressApp.create(options)
AdapterInit ==
  /\ NoClient
  /\ ServerQuiet
  /\ NoChat
  /\ config \in [socketPath : {"/sockress"}, corsOrigin : CorsOrigins]
  /\ server = "none"
  /\ wss = "none"
  /\ heartbeatInterval = "none"
  /\ shutdownRegistered = FALSE
  /\ shuttingDown = FALSE
  /\ listeners = {}
  /\ peers = <<>>
  /\ closes = <<>>
  /\ ticks = 0

\* Connections: upgrade attempts, their messages and the heartbeat.
ConnectionNext ==
  \/ Listen
  \/ Upgrade
  \/ \E k \in 1..MaxPeers : PeerMessage(k)
  \/ \E k \in 1..MaxPeers : Pong(k)
  \/ \E k \in 1..MaxPeers : PeerClose(k)
  \/ Tick

ConnectionSpec == AdapterInit /\ [][ConnectionNext]_vars

\* Shutdown: close() called by the application and by the process events,
\* while the heartbeat goes on firing.
ShutdownNext ==
  \/ Listen
  \/ Tick
  \/ AppClose
  \/ \E e \in ProcessEvents : Signal(e)
  \/ \E i \in 1..MaxCloses : ServerClosed(i)
  \/ \E i \in 1..MaxCloses : WssClosed(i)
  \/ \E i \in 1..MaxCloses : CloseSettles(i)

ShutdownSpec == AdapterInit /\ [][ShutdownNext]_vars

\* C14: when the heartbeat interval fires, every open connection that has
\* not answered its last ping is terminated and is sent no ping, and every
\* open connection that owes no pong is sent one ping and stays open; a
\* terminated connection is never sent another ping, and a connection is
\* terminated only at a tick at which it owes a pong.
C14_Heartbeat ==
  [][\A k \in DOMAIN peers :
       /\ (ticks' = ticks + 1 /\ peers[k].state = "open") =>
            IF peers[k].owed
            THEN peers'[k].state = "terminated" /\ peers'[k].pings = peers[k].pings
            ELSE peers'[k].state = "open" /\ peers'[k].pings = peers[k].pings + 1
       /\ peers[k].state = "terminated" => peers'[k].pings = peers[k].pings
       /\ (peers[k].state = "open" /\ peers'[k].state = "terminated") =>
            peers[k].owed /\ ticks' = ticks + 1]_vars

\* one connection answered its pings and is open after three ticks; another
\* did not answer its first ping and was terminated at the second tick
C14_Witness ==
  \E j, k \in DOMAIN peers :
    /\ ticks = MaxTicks
    /\ peers[j].state = "open" /\ peers[j].pings = MaxTicks
    /\ peers[k].state = "terminated" /\ peers[k].pings = 1

\* the Origin header names an origin that cors.origin does not allow
OutsideAllowList(origin) ==
  /\ origin # NoOrigin
  /\ ~(config.corsOrigin.kind = "string" /\ config.corsOrigin.val = "*")
  /\ config.corsOrigin.kind = "string" => config.corsOrigin.val # origin
  /\ config.corsOrigin.kind = "array" =>
       \A i \in DOMAIN config.corsOrigin.val : config.corsOrigin.val[i] # origin

\* C15: an upgrade attempt whose pathname is not the socket path, or whose
\* Origin is outside the allow-list, has its socket destroyed: it is no
\* client of the socket server, no envelope is received from it or sent to
\* it, and it is sent no ping.
C15_UpgradeRejected ==
  \A k \in DOMAIN peers :
    (peers[k].pathname # config.socketPath \/ OutsideAllowList(peers[k].origin)) =>
      /\ peers[k].state = "destroyed"
      /\ k \notin Clients
      /\ peers[k].received = 0 /\ peers[k].sent = 0 /\ peers[k].pings = 0

\* with the allow-list ["https://y.com"], the attempt from https://x.com was
\* destroyed and the one from https://y.com has exchanged an envelope
C15_Witness ==
  /\ config.corsOrigin.kind = "array"
  /\ config.corsOrigin.val = <<"https://y.com">>
  /\ \E j, k \in DOMAIN peers :
       /\ peers[j].pathname = config.socketPath /\ peers[j].origin = "https://x.com"
       /\ peers[j].state = "destroyed"
       /\ peers[k].origin = "https://y.com" /\ peers[k].received = 1 /\ peers[k].sent = 1

\* the close() calls made by finalize
SignalCloses == {i \in DOMAIN closes : closes[i].by = "signal"}

\* C20: a call of close() starts the teardown of the HTTP listener and of
\* the socket server in the same step; the heartbeat timer is cleared only
\* by a close() whose own two teardowns have both finished; the shutdown
\* listeners call close() at most once, however many events are emitted.
C20_Shutdown ==
  /\ [][/\ Len(closes') > Len(closes) =>
             /\ server = "listening" => server' = "closing"
             /\ wss = "open" => wss' = "closing"
             /\ server # "none" =>
                  /\ closes'[Len(closes')].http = "pending"
                  /\ closes'[Len(closes')].wss = "pending"
        /\ heartbeatInterval' # heartbeatInterval /\ heartbeatInterval' = "cleared" =>
             \E i \in DOMAIN closes :
               /\ closes[i].http = "ok" /\ closes[i].wss = "ok"
               /\ closes[i].pc = "awaiting" /\ closes'[i].pc = "returned"]_vars
  /\ [](Cardinality(SignalCloses) <= 1)

\* two of the process events were emitted, finalize called close() once and
\* that close cleared the heartbeat after both teardowns had finished
C20_Witness ==
  /\ Cardinality(listeners) = 1
  /\ Len(closes) = 1
  /\ closes[1].by = "signal" /\ closes[1].pc = "returned"
  /\ server = "closed" /\ wss = "closed"
  /\ heartbeatInterval = "cleared"

\* the messages of the connection that JSON.parse rejected or whose type is
\* not "request"
Refused == {r \in Reqs : req[r].st \in {"malformed", "unsupported"}}

\* C16: the message handler answers a message that does not parse, or whose
\* type is not "request", with exactly one envelope of type "error" that
\* carries no id, and composes and invokes nothing for it; a request that
\* follows such a message on the connection is dispatched as any other: its
\* stack is the composed one and its first layer is invoked or the end of
\* the stack answers it.
C16_RefusedMessage ==
  /\ [][\A r \in Reqs :
          (req[r].st = "none" /\ req'[r].st \in {"malformed", "unsupported"}) =>
            /\ Len(wire') = Len(wire) + 1
            /\ SubSeq(wire', 1, Len(wire)) = wire
            /\ wire'[Len(wire')].who = "adapter"
            /\ wire'[Len(wire')].msg.type = "error"
            /\ wire'[Len(wire')].msg.id = <<"none", 0>>
            /\ log' = log /\ act' = act /\ stack' = stack /\ cur' = cur]_vars
  /\ [](\A r \in Refused :
          /\ stack[r] = <<>> /\ log[r] = <<>> /\ act[r] = <<>>
          /\ \A i \in DOMAIN wire : wire[i].by # r)
  /\ [](Cardinality({i \in DOMAIN wire : wire[i].who = "adapter"})
          = Cardinality({r \in Reqs : req[r].st \in {"malformed", "unsupported", "failed"}}))
  /\ [](\A r \in Reqs :
          req[r].st = "dispatched" =>
            /\ stack[r] = ComposeStack(app, req[r].path, req[r].method).stack
            /\ log[r] # <<>> \/ \E i \in DOMAIN wire : wire[i].by = r)

\* the first message of the connection did not parse and was answered with
\* an error envelope; the request that followed was dispatched and its
\* handler answered it under its own id
C16_Witness ==
  /\ req[1].st = "malformed"
  /\ req[2].st = "dispatched"
  /\ Len(wire) = 2
  /\ wire[1].who = "adapter" /\ wire[1].msg.type = "error"
  /\ wire[2].by = 2 /\ wire[2].who = "handler"
  /\ wire[2].msg.type = "response" /\ wire[2].msg.id = req[2].id

\* the handlers of a composed stack, in order
HandlersOf(stk) == [i \in 1..Len(stk) |-> stk[i].handler]

\* req.params[key], or "undefined"
ParamValue(params, key) ==
  IF \E i \in 1..Len(params) : params[i].key = key
  THEN (CHOOSE e \in {params[i] : i \in 1..Len(params)} : e.key = key).value
  ELSE "undefined"

\* a GET of /api/users/7 was dispatched
GetUser7 ==
  req[1].st = "dispatched" /\ req[1].method = "GET" /\ req[1].path = PathUser7

\* C17: after use('/api', mw) and get('/api/users/:id', h), the stack of a
\* GET of /api/users/7 is mw then h; mw is invoked first and h only after
\* it, h is invoked when mw calls next() with no error, and req.params.id
\* is "7" whenever mw or h is running.
C17_MwThenH ==
  /\ [](GetUser7 =>
          /\ HandlersOf(stack[1]) = <<Mw, RouteH>>
          /\ [i \in 1..Len(log[1]) |-> log[1][i].pos] \in {<<1>>, <<1, 2>>}
          /\ (cur = 1 /\ callStack # <<>>) => ParamValue(req[1].params, "id") = <<"7">>)
  /\ [][(GetUser7 /\ cur = 1 /\ callStack = <<1>> /\ idx[1] = 1 /\ idx'[1] = 2
           /\ raised' = raised) =>
          /\ log'[1] = Append(log[1], [pos |-> 2, err |-> NoErr])
          /\ callStack' = <<1, 2>>
          /\ ParamValue(req'[1].params, "id") = <<"7">>]_vars

\* mw ran and called next(), and h is running with req.params.id = "7"
C17_Witness ==
  /\ GetUser7
  /\ [i \in 1..Len(log[1]) |-> log[1][i].pos] = <<1, 2>>
  /\ cur = 1 /\ callStack = <<1, 2>>
  /\ ParamValue(req[1].params, "id") = <<"7">>

\* status and body of what was written for request r, in order
AnswersOf(r) ==
  LET mine == SelectSeq(wire, LAMBDA m : m.by = r)
  IN  [i \in 1..Len(mine) |-> [status |-> mine[i].msg.status, body |-> mine[i].msg.body]]

\* the socket request and the HTTP request have both been handled to the
\* end and name the same method and path
SameRequest ==
  /\ cur = 0
  /\ req[1].st \in {"dispatched", "failed"}
  /\ req[2].st \in {"dispatched", "failed", "preflight", "rejected", "destroyed"}
  /\ req[1].method = req[2].method
  /\ req[1].path = req[2].path

OptionsAnswers ==
  {i \in DOMAIN wire : /\ wire[i].msg.type = "http"
                       /\ wire[i].by \in Reqs
                       /\ req[wire[i].by].method = "OPTIONS"}

\* C19: every HTTP OPTIONS request is answered with status 204, and no
\* middleware, parameter hook or route handler is invoked for it.
C19_OptionsNoContent ==
  /\ \A i \in OptionsAnswers : wire[i].msg.status = StatusNoContent
  /\ \A r \in Reqs :
       (req[r].method = "OPTIONS" /\ req[r].st \in {"preflight", "rejected", "destroyed"}) =>
         stack[r] = <<>> /\ log[r] = <<>> /\ act[r] = <<>>

\* the calls whose timeout fires in this step
TimedOutNow == {c \in Calls : calls[c].error # ErrTimeout /\ calls'[c].error = ErrTimeout}

\* the pending entries rejected in this step by an error envelope
RejectedByEnvelope ==
  IF inbox'.n > inbox.n /\ inbox'.last.type = "error" /\ inbox'.last.id # NoId
  THEN Hit(inbox'.last) ELSE {}

\* entry e stays registered with its timeout armed and its call waiting
StaysPending(e) ==
  /\ e \in pending'
  /\ e.id \in timers'
  /\ calls'[e.call] = calls[e.call]
  /\ calls'[e.call].pc = "socket"

\* C21: when the timeout of one socket request fires, or an error envelope
\* names one pending request, that request alone is rejected and leaves the
\* pending map: every other pending entry stays in the map with its own
\* timeout armed and its call still waiting for its response.
C21_OnlyThatRequest ==
  [][/\ \A c \in TimedOutNow :
          /\ \A e \in pending' : e.call # c
          /\ calls'[c].settles = calls[c].settles + 1
          /\ \A e \in pending : e.call # c => StaysPending(e)
     /\ \A h \in RejectedByEnvelope :
          /\ h \notin pending'
          /\ calls'[h.call].error = ErrEnvelope
          /\ \A e \in pending \ {h} : StaysPending(e)]_vars

\* the first call timed out while the second was pending, and the second
\* was then resolved by the response envelope that carries its id
C21_Witness ==
  /\ calls[1].error = ErrTimeout /\ calls[1].settles = 1
  /\ inbox.last = [type |-> "response", id |-> IdOf(2)]
  /\ calls[2].outcome = "socket" /\ calls[2].settles = 1

\* the two requests name the same method, and the path of the second is the
\* path of the first followed by a slash
SlashPair ==
  /\ req[1].st # "none" /\ req[2].st # "none"
  /\ req[1].method = req[2].method
  /\ req[1].path \in BasePaths
  /\ req[2].path = WithSlash(req[1].path)

HasWild(raw) == \E i \in 1..Len(raw) : raw[i] = "*"

\* the last segment of the pattern is *
EndsInWild(raw) == raw # <<>> /\ raw[Len(raw)] = "*"

PrefixOfApp == app.middlewares[1].path

\* the requests composed against a registry of one middleware layer
PrefixReqs == {r \in Reqs : app \in PrefixApps /\ req[r].st # "none"}

\* C23 as stated: the layer with prefix P is in the stack exactly when P is
\* /, or the path equals P, or the path starts with P followed by a slash.
C23_Original ==
  \A r \in PrefixReqs :
    (stack[r] # <<>>) =
      (\/ PrefixOfApp = <<"/">>
       \/ req[r].path = PrefixOfApp
       \/ IsPrefixOf(PrefixOfApp \o <<"/">>, req[r].path))

\* the prefix as matchesPrefix compares it: with a leading slash
Slashed(prefix) ==
  IF prefix # <<>> /\ Head(prefix) # "/" THEN <<"/">> \o prefix ELSE prefix

\* C23: the layer with prefix P is in the stack exactly when P is / or
\* empty, or the path equals P, or the path starts with P followed by a
\* slash, where a P that does not begin with a slash is taken with one put
\* in front; /apiary is not matched by the prefix /api.
C23_Prefix ==
  \A r \in PrefixReqs :
    /\ (stack[r] # <<>>) =
         (\/ PrefixOfApp = <<"/">> \/ PrefixOfApp = <<>>
          \/ req[r].path = Slashed(PrefixOfApp)
          \/ IsPrefixOf(Slashed(PrefixOfApp) \o <<"/">>, req[r].path))
    /\ stack[r] # <<>> => HandlersOf(stack[r]) = <<Mw>>
    /\ (PrefixOfApp \in {<<"/", "api">>, <<"api">>} /\ req[r].path = <<"/", "apiary">>) =>
         stack[r] = <<>>

\* under the prefix /api the path /apiary got no layer and /api/users/7 got it
C23_Witness ==
  /\ PrefixReqs = Reqs
  /\ PrefixOfApp = <<"/", "api">>
  /\ req[1].path = <<"/", "apiary">> /\ stack[1] = <<>>
  /\ req[2].path = <<"/", "api", "/", "users", "/", "7">> /\ HandlersOf(stack[2]) = <<Mw>>

\* the handlers of the middleware layers whose prefix takes the path, in
\* registration order
RECURSIVE MiddlewareOf(_, _)
MiddlewareOf(layers, path) ==
  IF layers = <<>> THEN <<>>
  ELSE LET prefix == Slashed(Head(layers).path) IN
       (IF prefix \in {<<"/">>, <<>>} \/ path = prefix \/ IsPrefixOf(prefix \o <<"/">>, path)
        THEN <<Head(layers).handler>> ELSE <<>>) \o MiddlewareOf(Tail(layers), path)

\* the handler chains of the routes of the method (or ALL) whose pattern
\* takes the path, in registration order
RECURSIVE ChainsOf(_, _, _)
ChainsOf(routes, path, method) ==
  IF routes = <<>> THEN <<>>
  ELSE (IF Head(routes).method \in {method, "ALL"}
           /\ MatcherMatch(Head(routes).raw, path).kind = "match"
        THEN Head(routes).handlers ELSE <<>>) \o ChainsOf(Tail(routes), path, method)

\* the layers of a stack that are not parameter hooks
NotHooks(stk) == SelectSeq(stk, LAMBDA layer : layer.kind # "param")

\* C30: parameter hooks apart, the composed stack of a request is the
\* middleware whose prefix matches, in registration order, followed by the
\* handler chains of the routes whose method is the request's or ALL and
\* whose pattern matches the path, in registration order, and nothing else;
\* middleware comes first whatever the order of registration.
C30_StackOrder ==
  \A r \in Reqs :
    req[r].st = "composed" =>
      HandlersOf(NotHooks(stack[r]))
        = MiddlewareOf(app.middlewares, req[r].path)
            \o ChainsOf(app.routes, req[r].path, req[r].method)

\* GET /users/42 against a registry whose first registration is a route: the
\* middleware registered after it comes first, then the chains of the GET
\* route and of the ALL route; the POST route and /users contribute nothing
C30_Witness ==
  /\ app = AppMixed
  /\ req[1].st = "composed" /\ req[1].method = "GET"
  /\ req[1].path = <<"/", "users", "/", "42">>
  /\ HandlersOf(stack[1]) = <<Mw, RouteH, RouteH2, ErrMw>>

\* the HTTP requests whose body is longer than bodyLimit
OverLimit ==
  {r \in Reqs : \/ req[r].st = "destroyed"
                \/ /\ req[r].st \in {"dispatched", "preflight", "failed"}
                   /\ res[r].mode.kind = "http"
                   /\ res[r].mode.req.body = "Payload too large"}

ChatUsers == {"ann", "bob", "cy"}
MaxRooms == 1
RoomIds == 1..MaxRooms
MaxEvents == 3

\* readyState of a WebSocket: OPEN and CLOSED (0: the socket does not exist yet)
ReadyOpen == 1
ReadyClosed == 3

\* maxMembers of a CreateRoomRequest (0: the field is absent)
MaxMembersValues == {0, 2}

\* a Map with one entry set
MapSet(m, k, v) == [x \in DOMAIN m \cup {k} |-> IF x = k THEN v ELSE m[x]]

\* a Map with one entry deleted
MapDelete(m, k) == [x \in DOMAIN m \ {k} |-> m[x]]

\* the transports a request of user u can arrive on: HTTP (0) or one of
\* the user's open sockets; res.mode.socket is undefined for HTTP
Via(u) ==
  {0} \cup {s \in ChatSockets :
              chatSockets[s].userId = u /\ chatSockets[s].readyState = ReadyOpen}

\* userRooms.get(u).add(roomId), the set created when it is missing
AddUserRoom(ur, u, roomId) ==
  MapSet(ur, u, (IF u \in DOMAIN ur THEN ur[u] ELSE {}) \cup {roomId})

\* userRooms.get(u).delete(roomId), the entry deleted when its set is empty
DeleteUserRoom(ur, u, roomId) ==
  IF u \notin DOMAIN ur
  THEN ur
  ELSE IF ur[u] \ {roomId} = {}
       THEN MapDelete(ur, u)
       ELSE MapSet(ur, u, ur[u] \ {roomId})

\* registerConnection(roomId, userId, socket)
RegisterConnection(cm, roomId, userId, socket) ==
  LET connections == IF roomId \in DOMAIN cm THEN cm[roomId] ELSE {}
  IN  IF \E conn \in connections : conn.userId = userId
      THEN MapSet(cm, roomId,
                  {IF conn.userId = userId
                   THEN [socket |-> socket, userId |-> userId]
                   ELSE conn : conn \in connections})
      ELSE MapSet(cm, roomId, connections \cup {[socket |-> socket, userId |-> userId]})

\* const socket = res.mode?.socket; if (socket) registerConnection(...)
RegisterIfSocket(cm, roomId, userId, socket) ==
  IF socket # 0 THEN RegisterConnection(cm, roomId, userId, socket) ELSE cm

\* unregisterConnection(roomId, userId)
UnregisterConnection(cm, roomId, userId) ==
  IF roomId \notin DOMAIN cm
  THEN cm
  ELSE LET connections == {conn \in cm[roomId] : conn.userId # userId}
       IN  IF connections = {}
           THEN MapDelete(cm, roomId)
           ELSE MapSet(cm, roomId, connections)

\* broadcastToRoom(roomId, event, excludeUserId): the sockets the event is
\* sent to, and the connection map without the connections found not open
BroadcastToRoom(rms, cm, roomId, excludeUserId) ==
  IF roomId \notin DOMAIN rms \/ roomId \notin DOMAIN cm
  THEN [to |-> {}, connectionMap |-> cm]
  ELSE LET kept == {conn \in cm[roomId] :
                      \/ conn.userId = excludeUserId
                      \/ chatSockets[conn.socket].readyState = ReadyOpen}
       IN  [to |-> {conn.socket : conn \in {c \in kept : c.userId # excludeUserId}},
            connectionMap |-> MapSet(cm, roomId, kept)]

ChatEvent(type, roomId, userId) ==
  [type |-> type, roomId |-> roomId, userId |-> userId, id |-> Len(emitted) + 1]

\* socket.send(eventData) on every socket of b.to
Broadcast(b, event) ==
  /\ Len(emitted) < MaxEvents
  /\ emitted' = Append(emitted, event)
  /\ delivered' = [s \in ChatSockets |->
                     IF s \in b.to THEN Append(delivered[s], event) ELSE delivered[s]]
  /\ connectionMap' = b.connectionMap

\* res.status(status).json(...): the state keeps the status of the answer
ChatAnswer(status, message) == chatReply' = status

ChatQuiet == UNCHANGED <<serverVars, clientVars, netVars>>

\* a client connects a socket as user u
ChatConnect(u) ==
  /\ \E s \in ChatSockets :
       /\ chatSockets[s].readyState = 0
       /\ \A t \in 1..(s - 1) : chatSockets[t].readyState # 0
       /\ chatSockets' = [chatSockets EXCEPT ![s] = [userId |-> u, readyState |-> ReadyOpen]]
  /\ UNCHANGED <<rooms, userRooms, connectionMap, delivered, emitted, chatReply, roomsMade>>
  /\ ChatQuiet

\* socket s is closed
ChatDisconnect(s) ==
  /\ chatSockets[s].readyState = ReadyOpen
  /\ chatSockets' = [chatSockets EXCEPT ![s].readyState = ReadyClosed]
  /\ UNCHANGED <<rooms, userRooms, connectionMap, delivered, emitted, chatReply, roomsMade>>
  /\ ChatQuiet

\* POST {prefix}/rooms
CreateRoomIn(ids, u, socket, named, maxMembers, isPrivate) ==
  /\ socket \in Via(u)
  /\ IF ~named
     THEN /\ ChatAnswer(400, "Room name is required")
          /\ UNCHANGED <<rooms, userRooms, roomsMade>>
     ELSE LET roomId == roomsMade + 1
          IN  /\ roomId \in ids
              /\ roomsMade' = roomId
              /\ rooms' = MapSet(rooms, roomId,
                                 [createdBy |-> u, members |-> {u},
                                  maxMembers |-> maxMembers, isPrivate |-> isPrivate])
              /\ userRooms' = AddUserRoom(userRooms, u, roomId)
              /\ ChatAnswer(200, "room")
  /\ UNCHANGED <<connectionMap, chatSockets, delivered, emitted>>
  /\ ChatQuiet

CreateRoom(u, socket, named, maxMembers, isPrivate) ==
  CreateRoomIn(RoomIds, u, socket, named, maxMembers, isPrivate)

\* a mutation of JoinRoom without the test of room.maxMembers
JoinRoomUnlimited(u, socket, roomId) ==
  /\ socket \in Via(u)
  /\ IF roomId \notin DOMAIN rooms
     THEN /\ ChatAnswer(404, "Room not found")
          /\ UNCHANGED <<rooms, userRooms, connectionMap, delivered, emitted>>
     ELSE IF rooms[roomId].isPrivate
     THEN /\ ChatAnswer(403, "Room is private")
          /\ UNCHANGED <<rooms, userRooms, connectionMap, delivered, emitted>>
     ELSE IF u \in rooms[roomId].members
     THEN /\ ChatAnswer(200, "Already in room")
          /\ UNCHANGED <<rooms, userRooms, connectionMap, delivered, emitted>>
     ELSE LET joined == [rooms EXCEPT ![roomId].members = @ \cup {u}]
              cm == RegisterIfSocket(connectionMap, roomId, u, socket)
          IN  /\ rooms' = joined
              /\ userRooms' = AddUserRoom(userRooms, u, roomId)
              /\ Broadcast(BroadcastToRoom(joined, cm, roomId, u),
                           ChatEvent("join", roomId, u))
              /\ ChatAnswer(200, "Joined room successfully")
  /\ UNCHANGED <<chatSockets, roomsMade>>
  /\ ChatQuiet

\* POST {prefix}/rooms/:roomId/join
JoinRoom(u, socket, roomId) ==
  /\ socket \in Via(u)
  /\ IF roomId \notin DOMAIN rooms
     THEN /\ ChatAnswer(404, "Room not found")
          /\ UNCHANGED <<rooms, userRooms, connectionMap, delivered, emitted>>
     ELSE IF rooms[roomId].isPrivate
     THEN /\ ChatAnswer(403, "Room is private")
          /\ UNCHANGED <<rooms, userRooms, connectionMap, delivered, emitted>>
     ELSE IF rooms[roomId].maxMembers # 0
             /\ Cardinality(rooms[roomId].members) >= rooms[roomId].maxMembers
     THEN /\ ChatAnswer(400, "Room is full")
          /\ UNCHANGED <<rooms, userRooms, connectionMap, delivered, emitted>>
     ELSE IF u \in rooms[roomId].members
     THEN /\ ChatAnswer(200, "Already in room")
          /\ UNCHANGED <<rooms, userRooms, connectionMap, delivered, emitted>>
     ELSE LET joined == [rooms EXCEPT ![roomId].members = @ \cup {u}]
              cm == RegisterIfSocket(connectionMap, roomId, u, socket)
          IN  /\ rooms' = joined
              /\ userRooms' = AddUserRoom(userRooms, u, roomId)
              /\ Broadcast(BroadcastToRoom(joined, cm, roomId, u),
                           ChatEvent("join", roomId, u))
              /\ ChatAnswer(200, "Joined room successfully")
  /\ UNCHANGED <<chatSockets, roomsMade>>
  /\ ChatQuiet

\* POST {prefix}/rooms/:roomId/leave
LeaveRoom(u, socket, roomId) ==
  /\ socket \in Via(u)
  /\ IF roomId \notin DOMAIN rooms
     THEN /\ ChatAnswer(404, "Room not found")
          /\ UNCHANGED <<rooms, userRooms, connectionMap, delivered, emitted>>
     ELSE IF u \notin rooms[roomId].members
     THEN /\ ChatAnswer(400, "Not a member of this room")
          /\ UNCHANGED <<rooms, userRooms, connectionMap, delivered, emitted>>
     ELSE LET left == [rooms EXCEPT ![roomId].members = @ \ {u}]
              cm == UnregisterConnection(connectionMap, roomId, u)
          IN  /\ userRooms' = DeleteUserRoom(userRooms, u, roomId)
              /\ Broadcast(BroadcastToRoom(left, cm, roomId, u),
                           ChatEvent("leave", roomId, u))
              /\ rooms' = IF left[roomId].members = {}
                          THEN MapDelete(left, roomId)
                          ELSE left
              /\ ChatAnswer(200, "Left room successfully")
  /\ UNCHANGED <<chatSockets, roomsMade>>
  /\ ChatQuiet

\* POST {prefix}/rooms/:roomId/messages
SendMessage(u, socket, roomId, hasMessage) ==
  /\ socket \in Via(u)
  /\ IF ~hasMessage
     THEN /\ ChatAnswer(400, "Message is required")
          /\ UNCHANGED <<connectionMap, delivered, emitted>>
     ELSE IF roomId \notin DOMAIN rooms
     THEN /\ ChatAnswer(404, "Room not found")
          /\ UNCHANGED <<connectionMap, delivered, emitted>>
     ELSE IF u \notin rooms[roomId].members
     THEN /\ ChatAnswer(403, "Not a member of this room")
          /\ UNCHANGED <<connectionMap, delivered, emitted>>
     ELSE LET cm == RegisterIfSocket(connectionMap, roomId, u, socket)
          IN  /\ Broadcast(BroadcastToRoom(rooms, cm, roomId, "none"),
                           ChatEvent("message", roomId, u))
              /\ ChatAnswer(200, "message")
  /\ UNCHANGED <<rooms, userRooms, chatSockets, roomsMade>>
  /\ ChatQuiet

RECURSIVE DeleteUserRooms(_, _, _)
\* for (const userId of room.members) { userRooms.get(userId)?.delete(roomId) ... }
DeleteUserRooms(ur, members, roomId) ==
  IF members = {}
  THEN ur
  ELSE LET u == CHOOSE x \in members : TRUE
       IN  DeleteUserRooms(DeleteUserRoom(ur, u, roomId), members \ {u}, roomId)

\* DELETE {prefix}/rooms/:roomId
DeleteRoom(u, socket, roomId) ==
  /\ socket \in Via(u)
  /\ IF roomId \notin DOMAIN rooms
     THEN /\ ChatAnswer(404, "Room not found")
          /\ UNCHANGED <<rooms, userRooms>>
     ELSE IF rooms[roomId].createdBy # u
     THEN /\ ChatAnswer(403, "Only room creator can delete the room")
          /\ UNCHANGED <<rooms, userRooms>>
     ELSE /\ userRooms' = DeleteUserRooms(userRooms, rooms[roomId].members, roomId)
          /\ rooms' = MapDelete(rooms, roomId)
          /\ ChatAnswer(200, "Room deleted successfully")
  /\ UNCHANGED <<connectionMap, chatSockets, delivered, emitted, roomsMade>>
  /\ ChatQuiet

ChatNext ==
  \/ \E u \in ChatUsers : ChatConnect(u)
  \/ \E s \in ChatSockets : ChatDisconnect(s)
  \/ \E u \in ChatUsers, socket \in ChatSockets \cup {0}, named, isPrivate \in BOOLEAN,
        maxMembers \in MaxMembersValues :
       CreateRoom(u, socket, named, maxMembers, isPrivate)
  \/ \E u \in ChatUsers, socket \in ChatSockets \cup {0}, roomId \in RoomIds :
       JoinRoom(u, socket, roomId)
  \/ \E u \in ChatUsers, socket \in ChatSockets \cup {0}, roomId \in RoomIds :
       LeaveRoom(u, socket, roomId)
  \/ \E u \in ChatUsers, socket \in ChatSockets \cup {0}, roomId \in RoomIds,
        hasMessage \in BOOLEAN :
       SendMessage(u, socket, roomId, hasMessage)
  \/ \E u \in ChatUsers, socket \in ChatSockets \cup {0}, roomId \in RoomIds :
       DeleteRoom(u, socket, roomId)

ChatInit == NoClient /\ NoAdapter /\ ServerQuiet /\ ChatState

ChatSpec == ChatInit /\ [][ChatNext]_vars

\* the members of the room of event e other than its author, as the
\* handler finds them
OtherMembers(e) == rooms[e.roomId].members \ {e.userId}

\* the open sockets of user u
OpenSocketsOf(u) ==
  {s \in ChatSockets : chatSockets[s].userId = u /\ chatSockets[s].readyState = ReadyOpen}

\* C25: when a message is sent to a room, or a user joins or leaves it,
\* every other member of the room that is connected over a socket is sent
\* the event on a socket of theirs, the creator of the room and the members
\* who have not sent a message yet included.
C25_EveryOtherMember ==
  [][Len(emitted') > Len(emitted) =>
       LET e == emitted'[Len(emitted')]
       IN  \A u \in OtherMembers(e) :
             OpenSocketsOf(u) # {} =>
               \E s \in OpenSocketsOf(u) : delivered'[s] = Append(delivered[s], e)]_vars


\* ---------------------------------------------------------------------
\* The dispatch engine on stacks that mix normal layers and error handlers.

ErrMw2 == Handler("onError2", 4)

\* app.use(mw); app.get('/api/users/:id', show, audit, onError)
AppSkip ==
  Register(AppUse(EmptyApp, <<"/">>, <<Mw>>), "GET", PatternUser, <<RouteH, RouteH2, ErrMw>>)

\* app.get('/api/users/:id', show, onError, onError2, audit)
AppRecover ==
  Register(EmptyApp, "GET", PatternUser, <<RouteH, ErrMw, ErrMw2, RouteH2>>)

EngineApps == {AppPlain, AppErrorMw, AppSkip, AppRecover}

EngineInit == ServerInit(1, EngineApps, MaxOps)

EngineSpec == EngineInit /\ [][DispatchNext]_vars

\* the step is a call of next(err) with a truthy err for envelope r, made by
\* a handler or by the catch around a handler that threw
ErrorRaised(r) ==
  /\ Len(raised'[r]) = Len(raised[r]) + 1
  /\ Truthy(raised'[r][Len(raised'[r])].err)

\* the step is a call of next(err) for envelope r with an err that is not
\* truthy: the first call runPipeline makes, a handler's next(), or the
\* catch around a handler that threw a falsy value
NextWithoutError(r) == idx'[r] > idx[r] /\ ~ErrorRaised(r)

\* the position of the first layer after position i whose isErrorHandler
\* flag is flag (0: there is none)
FirstAfter(stk, i, flag) ==
  LET ps == {p \in (i + 1)..Len(stk) : stk[p].isErrorHandler = flag}
  IN  IF ps = {} THEN 0 ELSE CHOOSE p \in ps : \A q \in ps : p <= q

\* C26: while an error is pending no normal layer is invoked: a call of
\* next(err) with an error invokes the first error handler after idx, with
\* that error, and no layer before it; when no error handler is left it
\* emits the engine's 500 with the error unless a response was sent before.
C26_ErrorUnwind ==
  [][\A r \in Reqs :
       /\ \A k \in 1..Len(log'[r]) :
            Truthy(log'[r][k].err) => stack'[r][log'[r][k].pos].isErrorHandler
       /\ ErrorRaised(r) =>
            LET err == raised'[r][Len(raised'[r])].err
                p == FirstAfter(stack[r], idx[r], TRUE)
            IN  IF p # 0
                THEN /\ log'[r] = Append(log[r], [pos |-> p, err |-> err])
                     /\ Msgs(r)' = Msgs(r)
                ELSE /\ log'[r] = log[r]
                     /\ IF res[r].sent
                        THEN Msgs(r)' = Msgs(r)
                        ELSE /\ Len(Msgs(r)') = 1
                             /\ IsServerError(Msgs(r)'[1], err)]_vars

\* C26 witness: mw raised E1, show and audit were skipped and onError, the
\* fourth layer, was invoked with E1; nothing has been written.
C26_Witness ==
  /\ app = AppSkip
  /\ log[1] = <<[pos |-> 1, err |-> NoErr], [pos |-> 4, err |-> "E1"]>>
  /\ raised[1] = <<[pos |-> 1, err |-> "E1", how |-> "throw"]>>
  /\ Msgs(1) = <<>>


\* C27: while no error is pending no error handler is invoked: a call of
\* next() without an error invokes the first normal layer after idx, the
\* error handlers before it skipped, and every invocation of an error
\* handler carries an error.
C27_SuccessPath ==
  [][\A r \in Reqs :
       /\ \A k \in 1..Len(log'[r]) :
            stack'[r][log'[r][k].pos].isErrorHandler => Truthy(log'[r][k].err)
       /\ NextWithoutError(r) =>
            LET p == FirstAfter(stack'[r], idx[r], FALSE)
            IN  IF p # 0
                THEN /\ log'[r] = Append(log[r], [pos |-> p, err |-> NoErr])
                     /\ idx'[r] = p
                ELSE /\ log'[r] = log[r]
                     /\ idx'[r] > Len(stack'[r])]_vars

\* C27 witness: mw called next() with no error; onError, the second layer,
\* was skipped and loadUser, the third, was invoked.
C27_Witness ==
  /\ app = AppErrorMw
  /\ log[1] = <<[pos |-> 1, err |-> NoErr], [pos |-> 3, err |-> NoErr]>>
  /\ stack[1][2].isErrorHandler
  /\ raised[1] = <<>>


\* the step is a call of next(...) made by the handler at position p of
\* envelope r, which stays on the call stack
NextCalledBy(r, p) ==
  /\ cur = r
  /\ callStack # <<>>
  /\ callStack[Len(callStack)] = p
  /\ idx'[r] > idx[r]
  /\ act'[r][p].st = "run"

\* what the end of the stack writes for envelope r: nothing after a
\* response was sent, else the one message that satisfies Is
EndWrites(r, Is(_)) ==
  IF res[r].sent
  THEN Msgs(r)' = Msgs(r)
  ELSE Len(Msgs(r)') = 1 /\ Is(Msgs(r)'[1])

\* C28: an error handler that calls next() with no error puts the dispatch
\* back on the success path: the first normal layer after idx is invoked
\* without an error and the error handlers before it are skipped; one that
\* calls next(err) has the first error handler after idx invoked with err,
\* or the engine's 500 written for err when none is left; a step in which
\* it writes, awaits or returns invokes no layer and advances nothing.
C28_ErrorHandlerNext ==
  [][\A r \in Reqs : \A p \in 1..Len(stack[r]) :
       (cur = r /\ callStack # <<>> /\ callStack[Len(callStack)] = p
          /\ stack[r][p].isErrorHandler) =>
         /\ (NextCalledBy(r, p) /\ ~ErrorRaised(r)) =>
              LET q == FirstAfter(stack[r], idx[r], FALSE)
              IN  IF q # 0
                  THEN log'[r] = Append(log[r], [pos |-> q, err |-> NoErr])
                  ELSE log'[r] = log[r] /\ EndWrites(r, IsNotFound)
         /\ (NextCalledBy(r, p) /\ ErrorRaised(r)) =>
              LET err == raised'[r][Len(raised'[r])].err
                  q == FirstAfter(stack[r], idx[r], TRUE)
              IN  IF q # 0
                  THEN log'[r] = Append(log[r], [pos |-> q, err |-> err])
                  ELSE log'[r] = log[r]
                       /\ EndWrites(r, LAMBDA m : IsServerError(m, err))
         /\ idx'[r] = idx[r] =>
              /\ log'[r] = log[r]
              /\ \A i \in 1..Len(wire') : i > Len(wire) => wire'[i].who = "handler"]_vars

\* C28 witness: show threw E1 and onError was invoked with it; onError
\* called next(E2) and onError2 was invoked with E2; onError2 answered and
\* returned without calling next(): audit, the layer after it, was never
\* invoked and the handler's answer is the only response.
C28_Witness ==
  /\ app = AppRecover
  /\ Complete(1)
  /\ log[1] = <<[pos |-> 1, err |-> NoErr], [pos |-> 2, err |-> "E1"],
                [pos |-> 3, err |-> "E2"]>>
  /\ raised[1] = <<[pos |-> 1, err |-> "E1", how |-> "throw"],
                   [pos |-> 2, err |-> "E2", how |-> "next"]>>
  /\ ~act[1][3].calledNext
  /\ sentBy[1] = "handler" /\ Len(Msgs(1)) = 1
  /\ idx[1] < Len(stack[1])


\* C29: the engine advances the same way whether or not the response was
\* sent: a call of next(err) made after a handler sent the response still
\* invokes the next layer of its path in stack order; sent only decides
\* what the end of the stack writes: nothing when a response was sent, else
\* the engine's 500 for a pending error and its 404 otherwise.
C29_SentOnlyStopsFallback ==
  [][\A r \in Reqs :
       (req[r].st = "dispatched" /\ idx'[r] > idx[r]) =>
         LET err == IF ErrorRaised(r) THEN raised'[r][Len(raised'[r])].err ELSE NoErr
             q == FirstAfter(stack[r], idx[r], ErrorRaised(r))
         IN  IF q # 0
             THEN /\ log'[r] = Append(log[r], [pos |-> q, err |-> err])
                  /\ res'[r] = res[r]
                  /\ Msgs(r)' = Msgs(r)
             ELSE /\ log'[r] = log[r]
                  /\ IF ErrorRaised(r)
                     THEN EndWrites(r, LAMBDA m : IsServerError(m, err))
                     ELSE EndWrites(r, IsNotFound)]_vars

\* C29 witness: mw answered with json() and called next(); show and audit
\* were invoked after it, in order, and audit's next() found the end of the
\* stack: the one response is mw's, and no 404 was written.
C29_Witness ==
  /\ app = AppPlain
  /\ callStack = <<1, 2, 3>>
  /\ log[1] = <<[pos |-> 1, err |-> NoErr], [pos |-> 2, err |-> NoErr],
                [pos |-> 3, err |-> NoErr]>>
  /\ idx[1] = Len(stack[1]) + 1
  /\ sentBy[1] = "handler"
  /\ Len(Msgs(1)) = 1 /\ Msgs(1)[1].msg.status = StatusOk
  /\ raised[1] = <<>>


\* ---------------------------------------------------------------------
\* Parameter hooks in the dispatch of a request.

PatternUser7Opt == <<"/", "api", "/", "users", "/", "7", "/", ":id?">>

\* app.param('id', loadUser); app.get('/api/users/:id', show);
\* app.all('/api/users/:id', audit)
AppParamTwice ==
  Register(Register(AppParam(EmptyApp, "id", Hook), "GET", PatternUser, <<RouteH>>),
           "ALL", PatternUser, <<RouteH2>>)

\* app.param('id', loadUser); app.get('/api/users/7/:id?', show)
AppParamOptional ==
  Register(AppParam(EmptyApp, "id", Hook), "GET", PatternUser7Opt, <<RouteH>>)

ParamApps == {AppParamTwice, AppParamOptional, AppErrorMw}

ParamInit == ServerInit(1, ParamApps, MaxOps)

ParamSpec == ParamInit /\ [][DispatchNext]_vars

\* the hooks registered for the names a match produced, in the order of the
\* names
RECURSIVE HooksFor(_, _)
HooksFor(a, params) ==
  IF params = <<>> THEN <<>>
  ELSE (IF HasParamHandler(a, Head(params).key)
        THEN <<ParamHandlerOf(a, Head(params).key)>> ELSE <<>>) \o HooksFor(a, Tail(params))

\* for every matched route in registration order: the hooks of the names
\* its match produced, then its handlers
RECURSIVE HookedChainsOf(_, _, _, _)
HookedChainsOf(a, routes, path, method) ==
  IF routes = <<>> THEN <<>>
  ELSE LET match == MatcherMatch(Head(routes).raw, path) IN
       (IF Head(routes).method \in {method, "ALL"} /\ match.kind = "match"
        THEN HooksFor(a, match.params) \o Head(routes).handlers
        ELSE <<>>) \o HookedChainsOf(a, Tail(routes), path, method)

\* the invocations of the hook registered for name in the dispatch of r
HookInvocations(r, name) ==
  {k \in 1..Len(log[r]) :
     /\ stack[r][log[r][k].pos].kind = "param"
     /\ stack[r][log[r][k].pos].handler = ParamHandlerOf(app, name)}

\* the hooks are where the claim puts them: before the handlers of every
\* matched route whose match produced their name, and nowhere else
HooksPlaced(r) ==
  HandlersOf(stack[r]) = MiddlewareOf(app.middlewares, req[r].path)
                           \o HookedChainsOf(app, app.routes, req[r].path, req[r].method)

\* C31: the hook registered with param(name, h) is in the stack immediately
\* before the handlers of a matched route exactly when the match of that
\* route produced a value for name, and a dispatch invokes it at most once.
C31_ParamHookOnce ==
  \A r \in Reqs :
    req[r].st = "dispatched" =>
      /\ HooksPlaced(r)
      /\ \A i \in 1..Len(app.paramHandlers) :
           Cardinality(HookInvocations(r, app.paramHandlers[i].name)) <= 1


\* ---------------------------------------------------------------------
\* Routers mounted with use(prefix, router).

\* userRouter.get('/', show); userRouter.get('/:id', audit)
RouterUsers ==
  Register(Register(EmptyRouter, "GET", <<"/">>, <<RouteH>>), "GET", <<"/", ":id">>, <<RouteH2>>)

\* apiRouter.use(mw); apiRouter.use(onError); apiRouter.get('/status', show)
RouterApi ==
  Register(RouterUse(RouterUse(EmptyRouter, <<"/">>, <<Mw>>), <<"/">>, <<ErrMw>>),
           "GET", <<"/", "status">>, <<RouteH>>)

\* router.use('/users', mw); router.get('/users/:id', show);
\* router.get('*', audit)
RouterCatchAll ==
  Register(Register(RouterUse(EmptyRouter, <<"/", "users">>, <<Mw>>),
                    "GET", PatternUsersId, <<RouteH>>),
           "GET", <<"*">>, <<RouteH2>>)

\* router.get('/files/*', show); router.all('/*', audit)
RouterFiles ==
  Register(Register(EmptyRouter, "GET", <<"/", "files", "/", "*">>, <<RouteH>>),
           "ALL", <<"/", "*">>, <<RouteH2>>)

Routers == {RouterUsers, RouterApi, RouterCatchAll, RouterFiles}
MountPrefixes == {<<"/">>, <<"/", "api">>, <<"/", "api", "/", "users">>}
Mounts == [prefix : MountPrefixes, router : Routers]

\* app.use(prefix, router) on a new app
Mount(m) == AppUse(EmptyApp, m.prefix, <<m.router>>)

\* paths as a request to the router alone would name them
RouterPaths ==
  {<<"/">>, <<"/", "42">>, <<"/", "status">>, <<"/", "users", "/", "42">>,
   <<"/", "files", "/", "a">>}

\* the path of a request for rp below the mount prefix
Below(prefix, rp) == IF prefix = <<"/">> THEN rp ELSE Concat(prefix, rp)

MountedPaths == RouterPaths \cup {Below(prefix, rp) : prefix \in MountPrefixes, rp \in RouterPaths}

ComposeMounted(r) == ComposeOf(r, MountedPaths)

RouterNext == \E r \in Reqs : ComposeMounted(r)
RouterInit == ServerInit(NumReq, {Mount(m) : m \in Mounts}, 0)
RouterSpec == RouterInit /\ [][RouterNext]_vars

\* the router on its own: an app with the router's layers and no hooks
RouterAlone(router) ==
  [middlewares |-> router.middlewares, routes |-> router.routes, paramHandlers |-> <<>>]

\* the prefix or pattern x of a router's layer as the mounted layer has it
Prepended(prefix, x) ==
  IF prefix = <<"/">> THEN x ELSE IF x = <<"/">> THEN prefix ELSE Concat(prefix, x)

\* the layers of the router are in the app in their order, each with its
\* handlers and classification, under the prefix
MountKeepsLayers(m) ==
  /\ Len(app.middlewares) = Len(m.router.middlewares)
  /\ \A i \in 1..Len(app.middlewares) :
       /\ app.middlewares[i].handler = m.router.middlewares[i].handler
       /\ app.middlewares[i].isErrorHandler = m.router.middlewares[i].isErrorHandler
       /\ Slashed(app.middlewares[i].path)
            = Prepended(m.prefix, m.router.middlewares[i].path)
  /\ Len(app.routes) = Len(m.router.routes)
  /\ \A i \in 1..Len(app.routes) :
       /\ app.routes[i].method = m.router.routes[i].method
       /\ app.routes[i].handlers = m.router.routes[i].handlers
       /\ Segments(app.routes[i].raw)
            = Segments(Prepended(m.prefix, m.router.routes[i].raw))

\* a request for rp below the prefix runs what the router alone runs for rp
MountRuns(m, r, rp) ==
  (req[r].st = "composed" /\ req[r].path = Below(m.prefix, rp)) =>
    HandlersOf(stack[r])
      = HandlersOf(ComposeStack(RouterAlone(m.router), rp, req[r].method).stack)

\* C32: a router mounted under a prefix has its middleware and routes in the
\* app under that prefix, in their order and with their classification, and
\* a request to the prefix followed by r runs the middleware and the route
\* the router has for r.
C32_Mounted ==
  \A m \in Mounts :
    app = Mount(m) =>
      /\ MountKeepsLayers(m)
      /\ \A r \in Reqs : \A rp \in RouterPaths : MountRuns(m, r, rp)

\* the routers without a route registered as '*'
NoBareWildcard(router) ==
  \A i \in 1..Len(router.routes) : router.routes[i].raw # <<"*">>

\* what mounting does keep: the same, for the routers that have no route
\* registered as '*' and for every router mounted under '/'
C32_ExceptBareWildcard ==
  \A m \in Mounts :
    (app = Mount(m) /\ (NoBareWildcard(m.router) \/ m.prefix = <<"/">>)) =>
      /\ MountKeepsLayers(m)
      /\ \A r \in Reqs : \A rp \in RouterPaths : MountRuns(m, r, rp)

\* ---------------------------------------------------------------------
\* Full-path matching, optional segments and wildcards (buildMatcher)

\* the pattern of the one route of the registry, and its segments
PatternOfApp == app.routes[1].raw
PatternSegs == Segments(PatternOfApp)

\* the GET requests composed against a registry of one GET route
PatternReqs ==
  {r \in Reqs : app \in PatternApps /\ req[r].st # "none" /\ req[r].method = "GET"}

\* the path has no empty segment before its end
Clean(path) ==
  /\ path # <<>> /\ Head(path) = "/"
  /\ \A i \in 1..(Len(path) - 1) : ~(path[i] = "/" /\ path[i + 1] = "/")

\* segment by segment: every path segment stands under a pattern segment
\* that is a parameter or the same literal, and the pattern segments the
\* path does not reach are optional
Aligned(segs, psegs) ==
  /\ Len(psegs) <= Len(segs)
  /\ \A i \in 1..Len(psegs) : IsParamSeg(segs[i]) \/ segs[i] = psegs[i]
  /\ \A i \in (Len(psegs) + 1)..Len(segs) : IsOptionalSeg(segs[i])

\* the position of the first * among the segments, 0 when there is none
FirstWild(segs) ==
  IF \E i \in 1..Len(segs) : segs[i] = "*"
  THEN CHOOSE i \in 1..Len(segs) : segs[i] = "*" /\ \A j \in 1..(i - 1) : segs[j] # "*"
  ELSE 0

\* what is left of the path after its first n segments and the slash
\* that follows them
Remainder(path, n) == SubSeq(path, 2 * n + 2, Len(path))

\* wildcard-free patterns match the full path and nothing longer
FullPathOnly(r) ==
  LET psegs == Segments(req[r].path) IN
  ~HasWild(PatternOfApp) =>
    /\ stack[r] # <<>> => Clean(req[r].path) /\ Aligned(PatternSegs, psegs)
    /\ (req[r].st = "composed" /\ Clean(req[r].path) /\ Aligned(PatternSegs, psegs))
         => stack[r] # <<>>

\* a :name? that took no segment leaves no parameter, one that took a
\* segment leaves its decoded value
OptionalSegment(r) ==
  LET psegs == Segments(req[r].path) IN
  (~HasWild(PatternOfApp) /\ stack[r] # <<>>) =>
    \A i \in 1..Len(PatternSegs) :
      IsParamSeg(PatternSegs[i]) =>
        ParamValue(req[r].params, SegKey(PatternSegs[i]))
          = IF i <= Len(psegs) THEN DecodeURIComponent(<<psegs[i]>>) ELSE "undefined"

\* * and /* match every path and capture it without its leading slash
BareWildcard(r) ==
  PatternOfApp \in {<<"*">>, <<"/", "*">>} =>
    /\ stack[r] # <<>>
    /\ ParamValue(req[r].params, "wild") = Tail(req[r].path)

\* the * segment of the pattern captured everything after the segments
\* before it
CapturesRemainder(r) ==
  LET w == FirstWild(PatternSegs) IN
  ParamValue(req[r].params, "wild")
    = DecodeURIComponent(Remainder(req[r].path, w - 1))

\* the * segment captured a beginning of the remainder, and the segments of
\* the pattern after it match what follows the capture
CapturesUpToRest(r) ==
  LET w == FirstWild(PatternSegs)
      rem == Remainder(req[r].path, w - 1)
      wild == ParamValue(req[r].params, "wild")
      rest == SubSeq(PatternSegs, w + 1, Len(PatternSegs))
  IN  \E k \in 0..Len(rem) :
        /\ wild = DecodeURIComponent(SubSeq(rem, 1, k))
        /\ Aligned(rest, Segments(SubSeq(rem, k + 1, Len(rem))))

\* a pattern with a * segment, other than * and /*, that matched
WildMatched(r) ==
  /\ HasWild(PatternOfApp) /\ PatternOfApp \notin {<<"*">>, <<"/", "*">>}
  /\ stack[r] # <<>>

\* C33 as stated: route matching requires the full path, :name? matches
\* zero or one segment and yields no parameter when it matched zero, every
\* * segment captures the whole remainder of the path, and * and /* match
\* every path.
C33_Original ==
  \A r \in PatternReqs :
    /\ FullPathOnly(r)
    /\ OptionalSegment(r)
    /\ BareWildcard(r)
    /\ WildMatched(r) => CapturesRemainder(r)

\* C33: route matching requires the full path, :name? matches zero or one
\* segment and yields no parameter when it matched zero, * and /* match
\* every path, and a * that is the last segment of its pattern captures the
\* whole remainder of the path, while a * followed by further segments
\* captures only the part of the remainder before the segments that match
\* them.
C33_FullPath ==
  \A r \in PatternReqs :
    /\ FullPathOnly(r)
    /\ OptionalSegment(r)
    /\ BareWildcard(r)
    /\ WildMatched(r) =>
         IF EndsInWild(PatternOfApp) THEN CapturesRemainder(r) ELSE CapturesUpToRest(r)

\* /files/*/x matched /files/a/x and captured a, not a/x, and did not match
\* /files/a, which stops before the pattern's last segment
C33_Witness ==
  /\ app \in PatternApps
  /\ PatternOfApp = <<"/", "files", "/", "*", "/", "x">>
  /\ \E r \in PatternReqs :
       /\ req[r].path = <<"/", "files", "/", "a", "/", "x">> /\ stack[r] # <<>>
       /\ ParamValue(req[r].params, "wild") = <<"a">>
  /\ \E r \in PatternReqs :
       req[r].path = <<"/", "files", "/", "a">> /\ stack[r] = <<>>

\* ---------------------------------------------------------------------
\* Requests queued while no socket is open (sendViaSocket, flushQueue)

\* the ids in the queue
QueuedIds == {queue[i] : i \in 1..Len(queue)}

\* sendViaSocket registers call c in this step
Registers(c) == calls[c].pc = "awaiting" /\ calls'[c].pc = "socket"

\* the timeout of call c fires in this step
TimesOut(c) ==
  /\ calls[c].pc = "socket"
  /\ IdOf(c) \in timers /\ IdOf(c) \notin timers'
  /\ calls'[c].error = ErrTimeout /\ calls[c].error # ErrTimeout

\* C34: a request that sendViaSocket registers while no socket is open is
\* appended to the queue and written to no socket, with its pending entry
\* and its timeout; while a request waits for the socket's answer its entry
\* and its timeout stay armed, whatever the sockets do; and when the timeout
\* fires the request goes on over HTTP, or is rejected when the call
\* disabled the fallback.
C34_QueuedWithTimeout ==
  [][\A c \in Calls :
       /\ (Registers(c) /\ ~CanUseSocket(sockets)) =>
            /\ queue' = Append(queue, IdOf(c))
            /\ sockets' = sockets
       /\ calls'[c].pc = "socket" =>
            /\ PendingGet(pending', IdOf(c)) # {}
            /\ IdOf(c) \in timers'
       /\ TimesOut(c) =>
            /\ PendingGet(pending', IdOf(c)) = {}
            /\ IF calls[c].noFallback
               THEN calls'[c].pc = "done" /\ calls'[c].outcome = "rejected"
                    /\ calls'[c].http = 0
               ELSE calls'[c].pc = "http" /\ calls'[c].http = 1]_vars

\* a request queued while the socket was connecting timed out with its
\* envelope still in the queue and went on over HTTP, and another, made
\* without the fallback, timed out and was rejected
C34_Witness ==
  \E c, d \in Calls :
    /\ calls[c].viaSocket /\ ~calls[c].noFallback /\ calls[c].error = ErrTimeout
    /\ calls[c].pc = "http" /\ IdOf(c) \notin SentIds
    /\ calls[d].viaSocket /\ calls[d].noFallback /\ calls[d].error = ErrTimeout
    /\ calls[d].pc = "done" /\ calls[d].outcome = "rejected" /\ calls[d].http = 0

\* the ids that have a pending entry
PendingIds == {e.id : e \in pending}

\* C35: every envelope in the queue belongs to a request that is still
\* pending, and a flush writes to the socket only envelopes of requests that
\* are still pending.
C35_QueueIsPending ==
  [][/\ QueuedIds' \subseteq PendingIds'
     /\ \A s \in DOMAIN sockets :
          \A i \in (Len(sockets[s].sent) + 1)..Len(sockets'[s].sent) :
            sockets'[s].sent[i] \in PendingIds \cup PendingIds']_vars

\* the sockets that are connecting or open
LiveSockets == {s \in DOMAIN sockets : sockets[s].readyState \in {Connecting, Open}}

\* C36: at most one socket is connecting or open, and every open socket is
\* the one this.ws names.
C36_OneSocket ==
  /\ Cardinality(LiveSockets) <= 1
  /\ \A s \in DOMAIN sockets : sockets[s].readyState = Open => ws = s

\* C37: once close() has been called the pending map and the queue are
\* empty, in every later state.
C37_ClosedStaysEmpty ==
  closeRequested => pending = {} /\ queue = <<>>

\* ---------------------------------------------------------------------
\* One dispatch: the index, the order of the layers, the one response

\* the positions of the layers next() invoked for envelope r, in the order
\* of their invocation, increase strictly
InStackOrder(lg) ==
  \A i, j \in 1..Len(lg) : i < j => lg[i].pos < lg[j].pos

\* C38: in one dispatch the stack index never decreases; each layer is
\* invoked at most once and the layers are invoked in stack order, also
\* when a handler calls next() more than once; and whatever the handlers
\* do, next() twice or a throw after next() included, the request gets at
\* most one response.
C38_OneDispatch ==
  [][\A r \in Reqs :
       /\ idx'[r] >= idx[r]
       /\ InStackOrder(log'[r])
       /\ Len(Msgs(r)') <= 1]_vars

\* a handler called next() twice (the layer it invoked first returned
\* without calling next() and nothing was thrown, yet a later layer was
\* invoked), and the request has its one response
C38_Witness ==
  \E r \in Reqs :
    /\ raised[r] = <<>>
    /\ Len(Msgs(r)) = 1
    /\ \E i \in 2..Len(log[r]) : \E j \in (i + 1)..Len(log[r]) :
         /\ act[r][log[r][i].pos].st = "done"
         /\ ~act[r][log[r][i].pos].calledNext
         /\ act[r][log[r][j].pos].st = "done"

\* ---------------------------------------------------------------------
\* req.params when several routes match (the wrappers of composeStack)

PatternNameId == <<"/", "api", "/", ":name", "/", ":id">>

\* app.param('id', loadUser); app.get('/api/users/:id', show);
\* app.get('/api/:name/:id', audit)
AppOverlap ==
  Register(Register(AppParam(EmptyApp, "id", Hook), "GET", PatternUser, <<RouteH>>),
           "GET", PatternNameId, <<RouteH2>>)

\* app.get('/api/users/:id', show); app.get('*', audit)
AppThenWild ==
  Register(Register(EmptyApp, "GET", PatternUser, <<RouteH>>), "GET", <<"*">>, <<RouteH2>>)

OverlapApps == {AppOverlap, AppThenWild}
OverlapInit == ServerInit(1, OverlapApps, MaxOps)
OverlapSpec == OverlapInit /\ [][DispatchNext]_vars

\* the layer is the wrapper of a route handler or of a parameter hook
IsWrapped(layer) == layer.kind \in {"route", "param"}

\* C39 as stated: whenever a route handler or a parameter hook runs,
\* req.params is what its own route's match extracted.
C39_Original ==
  \A r \in Reqs :
    (Running /\ cur = r /\ IsWrapped(stack[r][Top])) =>
      req[r].params = stack[r][Top].params

\* the position of the layer next() invoked last for envelope r
LastInvoked(r) == log[r][Len(log[r])].pos

\* C39: req.params is what the route of the route handler or parameter hook
\* invoked last extracted: a handler finds its own route's parameters when
\* it is invoked and for as long as no later layer of the dispatch has been
\* invoked.
C39_OwnParams ==
  \A r \in Reqs :
    /\ (log[r] # <<>> /\ IsWrapped(stack[r][LastInvoked(r)])) =>
         req[r].params = stack[r][LastInvoked(r)].params
    /\ (Running /\ cur = r /\ IsWrapped(stack[r][Top]) /\ LastInvoked(r) = Top) =>
         req[r].params = stack[r][Top].params

\* both routes matched /api/users/7 with different parameters, and the
\* handler of the second runs with name and id after the handler of the
\* first ran with id alone
C39_Witness ==
  /\ app = AppOverlap
  /\ Running /\ cur = 1
  /\ stack[1][Top].handler = RouteH2
  /\ LastInvoked(1) = Top
  /\ req[1].params = <<[key |-> "name", value |-> <<"users">>], [key |-> "id", value |-> <<"7">>]>>
  /\ \E k \in 1..Len(log[1]) :
       /\ stack[1][log[1][k].pos].handler = RouteH
       /\ stack[1][log[1][k].pos].params = <<[key |-> "id", value |-> <<"7">>]>>

\* ---------------------------------------------------------------------
\* Room state over create, join, leave and delete (ChatServer.setupRoutes)

\* the ids of the rooms created in one behaviour of RoomsSpec
MaxRoomsMade == 2
RoomsMadeIds == 1..MaxRoomsMade

\* the room requests, made over HTTP: res.mode has no socket
RoomsNext ==
  \/ \E u \in ChatUsers, named, isPrivate \in BOOLEAN, maxMembers \in MaxMembersValues :
       CreateRoomIn(RoomsMadeIds, u, 0, named, maxMembers, isPrivate)
  \/ \E u \in ChatUsers, roomId \in RoomsMadeIds : JoinRoom(u, 0, roomId)
  \/ \E u \in ChatUsers, roomId \in RoomsMadeIds : LeaveRoom(u, 0, roomId)
  \/ \E u \in ChatUsers, roomId \in RoomsMadeIds : DeleteRoom(u, 0, roomId)

RoomsSpec == ChatInit /\ [][RoomsNext]_vars

\* this.userRooms.get(u), empty when u has no entry
RoomsOfUser(u) == IF u \in DOMAIN userRooms THEN userRooms[u] ELSE {}

\* C40: a user is a member of a room exactly when the room is in the user's
\* room set, every room that exists has a member, and a room created with
\* maxMembers >= 1 has at most maxMembers members.
C40_RoomsConsistent ==
  /\ \A u \in ChatUsers : \A roomId \in RoomsMadeIds :
       (roomId \in DOMAIN rooms /\ u \in rooms[roomId].members) <=> roomId \in RoomsOfUser(u)
  /\ \A roomId \in DOMAIN rooms :
       /\ rooms[roomId].members # {}
       /\ rooms[roomId].maxMembers >= 1 =>
            Cardinality(rooms[roomId].members) <= rooms[roomId].maxMembers

\* two rooms exist, one of them full with its two members, a user is in
\* both, the creator of one has left it, and the last request was refused
\* because the room was full
C40_Witness ==
  /\ DOMAIN rooms = RoomsMadeIds
  /\ \E roomId \in DOMAIN rooms :
       /\ rooms[roomId].maxMembers = 2
       /\ Cardinality(rooms[roomId].members) = 2
  /\ \E u \in ChatUsers : RoomsOfUser(u) = RoomsMadeIds
  /\ \E roomId \in DOMAIN rooms : rooms[roomId].createdBy \notin rooms[roomId].members
  /\ chatReply = 400

====
